---- MODULE Spec2Model ----
(***************************************************************************)
(* Fund-manager: the valuation synchronisation engine.                     *)
(*                                                                         *)
(*   AppState / refreshNetValues      src/unnamed/part_000  (index page)    *)
(*   FundAPI.getFundEstimate & co.    src/js/calculator.js  (bundled API)   *)
(*   Calculator                       src/js/calculator.js                  *)
(*   Storage                          src/js/storage.js                     *)
(*                                                                         *)
(* JavaScript runs every task to completion, together with the microtasks  *)
(* (promise continuations) it queues.  One action of this model is one     *)
(* such task: a DOM event handler, a timer callback or a script load/error *)
(* event, followed by every promise continuation it makes runnable.        *)
(*                                                                         *)
(* Units.  Time is counted in minutes.  Shares are integers of 0.01 share, *)
(* prices integers of 0.0001 yuan, money amounts integers of 0.01 yuan and *)
(* rates integers of 0.01 %.  An optional JavaScript value is the empty    *)
(* tuple (undefined / missing / unparsable) or a one-element tuple.        *)
(***************************************************************************)
EXTENDS Integers, Sequences, FiniteSets, TLC

\* ------------------------------------------------------------------ bounds
\* Minutes of wall-clock time explored after the page was opened.
MaxElapsed == 5

\* Transactions applied one after the other to a holding.
MaxTransactions == 2

\* JSONP requests made.
MaxJsonpCalls == 3

\* ------------------------------------------------------- program constants
\* AppState.refreshInterval = 5 * 60 * 1000 ms, in minutes.
refreshInterval == 5

\* calculateAnnualizedRate's daysPerYear.
daysPerYear == 365

\* ------------------------------------------------------------ JS values
Undefined == <<>>

\* Truthiness of an optional number: undefined, NaN and 0 are falsy.
TruthyNum(x) == x # Undefined /\ x # <<0>>

\* a || b on optional numbers.
OrNum(a, b) == IF TruthyNum(a) THEN a ELSE b

\* parseFloat(raw) || 0 : a missing or unparsable field becomes 0.
ParseFloatOr0(raw) == IF TruthyNum(raw) THEN raw[1] ELSE 0

\* Math.round(n / d) for d > 0: halves round towards +infinity.
MathRoundDiv(n, d) == (2 * n + d) \div (2 * d)

\* ------------------------------------------------------------ instruments
\* The instrument codes of the explored portfolios.
CodeA == "000001"
CodeB == "000002"

\* What the provider publishes for an instrument (prices in 0.0001 yuan,
\* growth in 0.01 %); the two instruments differ so that crossed data shows.
ProviderNav(code) == IF code = CodeA THEN 12000 ELSE 23000
ProviderGrowth(code) == IF code = CodeA THEN 150 ELSE -80

\* A stored holding.  name, addDate and lastUpdate play no part in the
\* engine and are left out.  sharesIsString marks a holding whose shares
\* were stored as text (an imported file): arithmetic still coerces it, but
\* holding.shares.toFixed in renderHoldings raises a TypeError.
Holding(id, code, shares, costPrice, asText) ==
  [id |-> id, code |-> code, shares |-> shares, costPrice |-> costPrice,
   sharesIsString |-> asText,
   lastNav |-> Undefined, dayChange |-> Undefined, estimateTime |-> Undefined]

HoldingA(asText) == Holding("id_1", CodeA, 3, 10000, asText)
HoldingB(asText) == Holding("id_2", CodeB, 2, 20000, asText)

\* The holdings lists found in localStorage when the page is opened.
StoredLists ==
  {<<>>} \cup
  {<<HoldingA(t)>> : t \in BOOLEAN} \cup
  {<<HoldingA(FALSE), HoldingB(t)>> : t \in BOOLEAN}

\* ------------------------------------------------------------- Calculator
\* Calculator.round(num, decimals): n is the exact value in fine units, of
\* which unitsPerStep make one unit of the last decimal place kept.
round(n, unitsPerStep) == MathRoundDiv(n, unitsPerStep)

\* this.round(p / c * 100, 2) for c > 0, in 0.01 %: Math.round of
\* p * 10000 / c, by long division two digits at a time so that no
\* product leaves the integers' range.
RoundRate(p, c) ==
  LET hundredths == (p % c) * 100
      rest       == (hundredths % c) * 100
  IN  (p \div c) * 10000 + (hundredths \div c) * 100 + (rest \div c)
        + (IF 2 * (rest % c) >= c THEN 1 ELSE 0)

\* Mutant: a position without cost is rated as if its cost were one unit.
RateOf_zeroCostAsProfit(profit, cost) ==
  IF cost > 0 THEN RoundRate(profit, cost) ELSE profit

\* this.round(cost > 0 ? (profit / cost * 100) : 0, 2), in 0.01 %.
RateOf(profit, cost) ==
  IF cost > 0 THEN RoundRate(profit, cost) ELSE 0

\* this.round(profit, 2) with profit = currentAmount - costAmount, the
\* difference of the unrounded amounts.
ProfitAmount(costAmount, currentAmount) ==
  round(currentAmount - costAmount, 10000)

\* Calculator.calculateProfit(holding, currentNav); amounts in 0.01 yuan,
\* profitRate in 0.01 %.
calculateProfit(holding, currentNav) ==
  LET costAmount    == holding.shares * holding.costPrice
      currentAmount == holding.shares * currentNav
      profit        == currentAmount - costAmount
  IN  [costAmount    |-> round(costAmount, 10000),
       currentAmount |-> round(currentAmount, 10000),
       profit        |-> ProfitAmount(costAmount, currentAmount),
       profitRate    |-> RateOf(profit, costAmount)]

\* Mutant: a holding without a valuation is valued at nothing.
ValuationOf_zeroWhenMissing(h) ==
  IF TruthyNum(h.lastNav) THEN h.lastNav[1] ELSE 0

\* h.lastNav || h.costPrice: the valuation of a holding, its cost price
\* while it has no (or a zero) last net value.
ValuationOf(h) == OrNum(h.lastNav, <<h.costPrice>>)[1]

\* Calculator.calculateDayProfit(holding, dayChangeRate), in 0.01 yuan.
calculateDayProfit(holding, dayChangeRate) ==
  LET currentAmount ==
        holding.shares * ValuationOf(holding)
  IN  round(currentAmount * dayChangeRate, 100000000)

\* Calculator.calculateRate(profit, cost), amounts in 0.01 yuan, the rate
\* in 0.01 %: only a cost of exactly 0 is guarded.
calculateRate(profit, cost) ==
  IF cost = 0 THEN 0
  ELSE IF cost > 0 THEN RoundRate(profit, cost)
  ELSE RoundRate(-profit, -cost)

\* this.round(n / d, 4) as a price in 0.0001 yuan, for n in 0.000001 yuan
\* and d > 0 in 0.001 share: Math.round of 10 * n / d, by long division.
RoundPrice(n, d) ==
  LET tenths == (n % d) * 10
  IN  (n \div d) * 10 + (tenths \div d)
        + (IF 2 * (tenths % d) >= d THEN 1 ELSE 0)

\* Mutant: a buy keeps the cost price of the holding.
BuyCostPrice_keepsOld(holding, transaction) == holding.costPrice

\* The buy branch of calculateAfterTransaction: the cost of the holding
\* plus the amount paid, divided by the unrounded new shares, rounded to
\* 4 places.  transaction.shares is in 0.001 share and is positive,
\* transaction.amount in 0.01 yuan.
BuyCostPrice(holding, transaction) ==
  LET oldCost   == holding.shares * holding.costPrice
      newCost   == transaction.amount * 10000
      totalCost == oldCost + newCost
      newShares == holding.shares * 10 + transaction.shares
  IN  RoundPrice(totalCost, newShares)

\* Mutant: the share count is not clamped.
ClampShares_none(shares) == shares

\* Math.max(0, shares).
ClampShares(shares) == IF shares < 0 THEN 0 ELSE shares

\* Calculator.calculateAfterTransaction(holding, transaction): the shares
\* (0.01 share) and the cost price (0.0001 yuan) after the transaction.
calculateAfterTransaction(holding, transaction) ==
  LET newShares ==
        IF transaction.type = "buy"
          THEN holding.shares * 10 + transaction.shares
        ELSE IF transaction.type = "sell"
          THEN holding.shares * 10 - transaction.shares
        ELSE holding.shares * 10
      newCostPrice ==
        IF transaction.type = "buy"
          THEN BuyCostPrice(holding, transaction)
          ELSE round(holding.costPrice, 1)
  IN  [shares    |-> ClampShares(round(newShares, 10)),
       costPrice |-> newCostPrice]

\* A number as JavaScript computes it: finite with a value, or one of
\* NaN, Infinity and -Infinity.
Finite(value) == [finite |-> TRUE, value |-> value]
NonFinite == [finite |-> FALSE, value |-> 0]

\* this.round(((1 + totalRate / 100) ** (daysPerYear / days) - 1) * 100, 2),
\* totalRate and the result in 0.01 %, for the periods explored: a whole
\* year (exponent 1), and no days at all, where the exponent is Infinity
\* and the power is Infinity, NaN or 0 with the size of the base.
AnnualizedPower(totalRate, days) ==
  IF days = daysPerYear THEN Finite(totalRate)
  ELSE IF totalRate > -20000 /\ totalRate < 0 THEN Finite(-10000)
  ELSE NonFinite

\* Mutant: no special case for a period of no days.
IsNoDays_never(days) == FALSE

\* days === 0.
IsNoDays(days) == days = 0

\* Calculator.calculateAnnualizedRate(totalRate, days).
calculateAnnualizedRate(totalRate, days) ==
  IF IsNoDays(days) THEN Finite(0) ELSE AnnualizedPower(totalRate, days)

\* The only element of a one-element set: binds a computed value.
The(S) == CHOOSE x \in S : TRUE

\* Mutant: a day change of 0 counts as none.
HasDayChange_nonZero(h) == TruthyNum(h.dayChange)

\* h.dayChange !== undefined && h.dayChange !== null.
HasDayChange(h) == h.dayChange # Undefined

\* One pass of calculateSummary's forEach: the totals t after holding h.
SummaryStep(t, h) ==
  LET profit == calculateProfit(h, ValuationOf(h))
      hasDay == HasDayChange(h)
  IN  [totalCost      |-> t.totalCost + profit.costAmount,
       totalCurrent   |-> t.totalCurrent + profit.currentAmount,
       totalDayProfit |-> IF hasDay
                            THEN t.totalDayProfit
                                 + calculateDayProfit(h, h.dayChange[1])
                            ELSE t.totalDayProfit,
       hasDayProfit   |-> t.hasDayProfit \/ hasDay]

\* The running totals of calculateSummary's forEach over holdings[1..k].
RECURSIVE SummaryTotals(_, _)
SummaryTotals(holdings, k) ==
  IF k = 0
    THEN [totalCost |-> 0, totalCurrent |-> 0, totalDayProfit |-> 0,
          hasDayProfit |-> FALSE]
    ELSE The({SummaryStep(t, holdings[k]) :
                t \in {SummaryTotals(holdings, k - 1)}})

\* Lines 61-73 of calculateSummary: the summary of the totals t.
SummaryOfTotals(t) ==
  LET totalProfit == t.totalCurrent - t.totalCost
  IN  [totalCost       |-> t.totalCost,
       totalCurrent    |-> t.totalCurrent,
       totalProfit     |-> totalProfit,
       totalProfitRate |-> RateOf(totalProfit, t.totalCost),
       totalDayProfit  |-> t.totalDayProfit,
       dayProfitRate   |-> IF t.totalCurrent > 0
                             THEN round(t.totalDayProfit * 10000, t.totalCurrent)
                             ELSE 0,
       hasDayProfit    |-> t.hasDayProfit]

\* Calculator.calculateSummary(holdings).
calculateSummary(holdings) ==
  The({SummaryOfTotals(t) : t \in {SummaryTotals(holdings, Len(holdings))}})

\* The reduce of calculateDistribution: the unrounded value of
\* holdings[1..k], in 0.000001 yuan.
RECURSIVE TotalValue(_, _)
TotalValue(holdings, k) ==
  IF k = 0 THEN 0
  ELSE TotalValue(holdings, k - 1)
         + holdings[k].shares * ValuationOf(holdings[k])

\* The map of calculateDistribution: the entry of holding h in a portfolio
\* worth totalValue (value in 0.01 yuan, percentage in 0.01 %).
DistributionEntry(h, totalValue) ==
  LET value == h.shares * ValuationOf(h)
  IN  [code       |-> h.code,
       value      |-> round(value, 10000),
       percentage |-> RateOf(value, totalValue)]

\* Array.prototype.sort with (a, b) => b.percentage - a.percentage: entry e
\* put into the sorted entries, after those of the same percentage.
RECURSIVE InsertByPercentage(_, _)
InsertByPercentage(sorted, e) ==
  IF sorted = <<>> \/ e.percentage > Head(sorted).percentage
    THEN <<e>> \o sorted
    ELSE <<Head(sorted)>> \o InsertByPercentage(Tail(sorted), e)

RECURSIVE SortByPercentage(_, _)
SortByPercentage(entries, k) ==
  IF k = 0 THEN <<>>
  ELSE InsertByPercentage(SortByPercentage(entries, k - 1), entries[k])

\* Calculator.calculateDistribution(holdings).
calculateDistribution(holdings) ==
  LET totalValue == TotalValue(holdings, Len(holdings))
      entries    == [k \in 1..Len(holdings) |->
                       DistributionEntry(holdings[k], totalValue)]
  IN  SortByPercentage(entries, Len(entries))

\* updateSummaryCard(summary): what the summary card shows afterwards, the
\* total amount and either the day profit or the cumulative profit (the
\* amounts are kept as numbers; their text formatting is presentation).
updateSummaryCard(summary) ==
  [totalAmount |-> summary.totalCurrent,
   profitKind  |-> IF summary.hasDayProfit THEN "day" ELSE "total",
   profit      |-> IF summary.hasDayProfit
                     THEN summary.totalDayProfit ELSE summary.totalProfit,
   profitRate  |-> IF summary.hasDayProfit
                     THEN summary.dayProfitRate ELSE summary.totalProfitRate]

\* The card as the page's markup shows it before any script has run.
BlankCard ==
  [totalAmount |-> 0, profitKind |-> "blank", profit |-> 0, profitRate |-> 0]

\* renderHoldings: raises a TypeError for a non-empty list holding an entry
\* whose shares are text (holding.shares.toFixed is not a function).
renderHoldingsThrows(holdings) ==
  \E k \in 1..Len(holdings) : holdings[k].sharesIsString

\* ---------------------------------------------------------------- Storage
\* localStorage's fundHoldings item: absent, or the JSON text of a list.
\* JSON.stringify drops undefined-valued properties and JSON.parse gives
\* them back as missing, which is the same optional value here.
NoItem == [present |-> FALSE, text |-> <<>>]

\* JSON.stringify(holdings) as the stored item.
JSONstringify(holdings) == [present |-> TRUE, text |-> holdings]

\* Storage.getHoldings(): data ? JSON.parse(data) : [].
getHoldings(item) == IF item.present THEN item.text ELSE <<>>

\* Storage.saveHoldings(holdings): the new item and the returned flag;
\* quotaOk = FALSE is localStorage.setItem raising QuotaExceededError.
saveHoldings(item, holdings, quotaOk) ==
  IF quotaOk
    THEN [item |-> JSONstringify(holdings), ok |-> TRUE]
    ELSE [item |-> item, ok |-> FALSE]

\* Mutant: no check for a holding of the same code.
CodeIsHeld_never(holdings, code) == FALSE

\* holdings.find(h => h.code === holding.code)
CodeIsHeld(holdings, code) ==
  \E k \in 1..Len(holdings) : holdings[k].code = code

\* Storage.addHolding(holding): the item afterwards, whether the call
\* raised ('该基金已存在于持仓中' is rethrown by the catch clause) and the
\* holding returned.  id is what generateId gives.  The result of
\* saveHoldings is not looked at.
addHolding(item, holding, id, quotaOk) ==
  LET holdings == getHoldings(item)
      added    == [holding EXCEPT !.id = id]
  IN  IF CodeIsHeld(holdings, holding.code)
        THEN [item |-> item, raised |-> TRUE, returned |-> Undefined]
        ELSE [item     |-> saveHoldings(item, Append(holdings, added),
                                        quotaOk).item,
              raised   |-> FALSE,
              returned |-> <<added>>]

\* {...holdings[index], ...data}: the holding with the fields of data.
Spread(holding, data) ==
  [f \in DOMAIN holding |->
     IF f \in DOMAIN data THEN data[f] ELSE holding[f]]

\* holdings.findIndex(h => h.id === id), 0 for -1.
FindIndexById(holdings, id) ==
  IF \E k \in 1..Len(holdings) : holdings[k].id = id
    THEN CHOOSE k \in 1..Len(holdings) :
           /\ holdings[k].id = id
           /\ \A j \in 1..(k - 1) : holdings[j].id # id
    ELSE 0

\* Storage.updateHolding(id, data): '未找到该持仓' is rethrown.
updateHolding(item, id, data, quotaOk) ==
  LET holdings == getHoldings(item)
      index    == FindIndexById(holdings, id)
  IN  IF index = 0
        THEN [item |-> item, raised |-> TRUE, returned |-> Undefined]
        ELSE LET changed == [holdings EXCEPT
                               ![index] = Spread(holdings[index], data)]
             IN  [item     |-> saveHoldings(item, changed, quotaOk).item,
                  raised   |-> FALSE,
                  returned |-> <<changed[index]>>]

\* Mutant: the filter keeps the holding it should drop.
RemoveById_inverted(holdings, id) ==
  SelectSeq(holdings, LAMBDA h : h.id = id)

\* holdings.filter(h => h.id !== id)
RemoveById(holdings, id) ==
  SelectSeq(holdings, LAMBDA h : h.id # id)

\* Storage.deleteHolding(id): '未找到该持仓' is caught and false returned.
deleteHolding(item, id, quotaOk) ==
  LET holdings == getHoldings(item)
      filtered == RemoveById(holdings, id)
  IN  IF Len(filtered) = Len(holdings)
        THEN [item |-> item, raised |-> FALSE, returned |-> FALSE]
        ELSE [item     |-> saveHoldings(item, filtered, quotaOk).item,
              raised   |-> FALSE,
              returned |-> TRUE]

\* Storage.getTransactions(): data ? JSON.parse(data) : []
getTransactions(item) == IF item.present THEN item.text ELSE <<>>

\* JSON.parse(localStorage.getItem(KEYS.SETTINGS) || '{}'); the settings
\* object is followed by its one key in use, theme.
EmptySettings == [theme |-> Undefined]
getSettings(item) == IF item.present THEN item.text ELSE EmptySettings

\* Storage.exportData(): the JSON text, a one-element sequence holding the
\* document; exportDate is left out.
exportData(hItem, tItem, sItem) ==
  << [holdings     |-> getHoldings(hItem),
      transactions |-> getTransactions(tItem),
      settings     |-> getSettings(sItem),
      version      |-> "1.0"] >>

\* Storage.importData(jsonString).  refused is the set of items whose
\* write localStorage refuses.  null, or a document without version,
\* throws before anything is written; saveHoldings catches the error of a
\* refused write and its result is dropped; a refused setItem of
\* transactions or settings throws after the writes before it.  Arrays and objects are
\* truthy, so the three `if (data.x)` tests pass for every export.
importData(hItem, tItem, sItem, jsonString, refused) ==
  LET unchanged == [holdings |-> hItem, transactions |-> tItem,
                    settings |-> sItem, returned |-> FALSE]
  IN  IF jsonString = Undefined THEN unchanged
      ELSE LET data  == jsonString[1]
               saved == saveHoldings(hItem, data.holdings,
                                     "holdings" \notin refused)
           IN  IF data.version = "" THEN unchanged
               ELSE IF "transactions" \in refused
                 THEN [unchanged EXCEPT !.holdings = saved.item]
               ELSE IF "settings" \in refused
                 THEN [unchanged EXCEPT
                         !.holdings = saved.item,
                         !.transactions = JSONstringify(data.transactions)]
               ELSE [holdings     |-> saved.item,
                     transactions |-> JSONstringify(data.transactions),
                     settings     |-> JSONstringify(data.settings),
                     returned     |-> TRUE]

\* ------------------------------------------------------ Storage: the cache
\* localStorage's fundCache item: absent, or a text.  The text is the JSON
\* of an object mapping a key to its entry {data, updateTime, expireTime},
\* modelled as a function on the keys present; or it is JSON of something
\* that is no object (the text 'null'); or it is not JSON at all.
\* Keys are instrument codes and data are JSON values, which
\* JSON.stringify and JSON.parse give back unchanged.
CacheText(cache) == [present |-> TRUE, kind |-> "object", text |-> cache]
NullText == [present |-> TRUE, kind |-> "null", text |-> <<>>]
CorruptText == [present |-> TRUE, kind |-> "corrupt", text |-> <<>>]
EmptyCache == <<>>

\* The outcome of a block of code: it threw, or it completed with a value.
Threw == [threw |-> TRUE, value |-> Undefined]
Completed(value) == [threw |-> FALSE, value |-> value]

\* JSON.parse(localStorage.getItem(KEYS.CACHE) || '{}')
\* (isNull: the parsed value is null, on which any property access raises)
ParseCache(item) ==
  IF ~item.present
    THEN [threw |-> FALSE, isNull |-> FALSE, value |-> EmptyCache]
  ELSE IF item.kind = "corrupt"
    THEN [threw |-> TRUE, isNull |-> FALSE, value |-> EmptyCache]
  ELSE [threw |-> FALSE, isNull |-> item.kind = "null", value |-> item.text]

\* Mutant: no catch clause, the exception reaches the caller.
CatchAll_rethrows(outcome, onError) ==
  IF outcome.threw THEN [raised |-> TRUE, returned |-> Undefined]
  ELSE [raised |-> FALSE, returned |-> outcome.value]

\* try { ... } catch (error) { console.error(...); return onError; }
CatchAll(outcome, onError) ==
  IF outcome.threw THEN [raised |-> FALSE, returned |-> onError]
  ELSE [raised |-> FALSE, returned |-> outcome.value]

\* Mutant: an entry is still served at the instant it expires.
EntryIsFresh_atExpiry(entry, now) == entry.expireTime >= now

\* item.expireTime > Date.now()
EntryIsFresh(entry, now) == entry.expireTime > now

\* The try block of Storage.getCache(key): with a key, the entry's data
\* as <<data>> or null (Undefined); without one, the whole cache.
\* cache[key] on null raises a TypeError.
getCacheBody(item, key, now) ==
  LET parsed == ParseCache(item)
  IN  IF parsed.threw THEN Threw
      ELSE IF key = Undefined
        THEN Completed(IF parsed.isNull THEN Undefined ELSE <<parsed.value>>)
      ELSE IF parsed.isNull THEN Threw
      ELSE IF key[1] \in DOMAIN parsed.value
              /\ EntryIsFresh(parsed.value[key[1]], now)
        THEN Completed(<<parsed.value[key[1]].data>>)
        ELSE Completed(Undefined)

\* Storage.getCache(key)
getCache(item, key, now) == CatchAll(getCacheBody(item, key, now), Undefined)

\* The default value of setCache's expireMinutes parameter.
DefaultExpireMinutes == 5

\* Milliseconds in a minute: expireMinutes * 60 * 1000.
MsPerMinute == 60000

\* The cache with key bound to entry.
WithEntry(cache, key, entry) ==
  [k \in DOMAIN cache \cup {key} |-> IF k = key THEN entry ELSE cache[k]]

\* Mutant: an entry already present is kept (put-if-absent).
StoreEntry_ifAbsent(cache, key, entry) ==
  IF key \in DOMAIN cache THEN cache ELSE WithEntry(cache, key, entry)

\* cache[key] = {...}
StoreEntry(cache, key, entry) == WithEntry(cache, key, entry)

\* The try block of Storage.setCache(key, data, expireMinutes): the new
\* item.  Date.now() is read twice, giving now1 for updateTime and now2 for
\* expireTime; quotaOk = FALSE is localStorage.setItem raising.
setCacheBody(item, key, data, expireMinutes, now1, now2, quotaOk) ==
  LET parsed  == ParseCache(item)
      minutes == IF expireMinutes = Undefined
                   THEN DefaultExpireMinutes ELSE expireMinutes[1]
  IN  IF parsed.threw \/ parsed.isNull \/ ~quotaOk THEN Threw
      ELSE Completed(CacheText(StoreEntry(parsed.value, key,
             [data       |-> data,
              updateTime |-> now1,
              expireTime |-> now2 + minutes * MsPerMinute])))

\* Storage.setCache(key, data, expireMinutes): the item afterwards and what
\* the call returned (true, or false from the catch clause).
setCache(item, key, data, expireMinutes, now1, now2, quotaOk) ==
  LET body == setCacheBody(item, key, data, expireMinutes, now1, now2, quotaOk)
      call == CatchAll(IF body.threw THEN Threw ELSE Completed(TRUE), FALSE)
  IN  [item |-> IF body.threw THEN item ELSE body.value,
       raised |-> call.raised, returned |-> call.returned]

\* Mutant: the sweep compares the time the entry was written.
Unexpired_byUpdateTime(cache, now) ==
  [k \in {j \in DOMAIN cache : ~(cache[j].updateTime < now)} |-> cache[k]]

\* The cache without the entries that clearExpiredCache deletes.
Unexpired(cache, now) ==
  [k \in {j \in DOMAIN cache : ~(cache[j].expireTime < now)} |-> cache[k]]

\* Storage.clearExpiredCache(): the item afterwards.  for...in over null
\* iterates nothing; setItem is called only when an entry was deleted.
clearExpiredCache(item, now, quotaOk) ==
  LET parsed == ParseCache(item)
      body   == IF parsed.threw THEN Threw
                ELSE IF parsed.isNull THEN Completed(item)
                ELSE IF Unexpired(parsed.value, now) = parsed.value
                  THEN Completed(item)
                ELSE IF ~quotaOk THEN Threw
                ELSE Completed(CacheText(Unexpired(parsed.value, now)))
      call   == CatchAll(IF body.threw THEN Threw ELSE Completed(Undefined),
                         Undefined)
  IN  [item |-> IF body.threw THEN item ELSE body.value,
       raised |-> call.raised, returned |-> call.returned]

\* ---------------------------------------------------------------- FundAPI
\* What the live-estimate script fundgz.../<code>.js may leave in
\* window.jsonpgz_<code>: every field well formed, or none parsable.
LiveData(code) ==
  {[gsz    |-> <<ProviderNav(code)>>, gszzl |-> <<ProviderGrowth(code)>>,
    dwjz   |-> <<ProviderNav(code)>>, gztime |-> <<"14:30">>],
   [gsz    |-> Undefined, gszzl |-> Undefined,
    dwjz   |-> Undefined, gztime |-> Undefined]}

\* What the script leaves there: nothing (no live estimate is published, or
\* the body is not the expected script), or one data object.
LivePublished(code) == {Undefined} \cup {<<d>> : d \in LiveData(code)}

\* The point pingzhongdata/<code>.js puts last in Data_netWorthTrend.
TrendPoints(code) ==
  {[y |-> <<ProviderNav(code)>>, equityReturn |-> <<ProviderGrowth(code)>>]}

\* The global Data_netWorthTrend: not defined, or an array of points.
TrendUndefined == [defined |-> FALSE, points |-> <<>>]
TrendArray(points) == [defined |-> TRUE, points |-> points]

\* What the settled-net-value script does to the global: it assigns an
\* array (possibly empty), or it defines nothing (an error page, a body
\* that is not the expected script).
TrendScripts(code) ==
  {Undefined, <<TrendArray(<<>>)>>} \cup
  {<<TrendArray(<<p>>)>> : p \in TrendPoints(code)}

\* The global after the script of a load event has run.
RunTrendScript(global, script) ==
  IF script = Undefined THEN global ELSE script[1]

\* The load event of a live-estimate script, named after what the script
\* left in window[dataKey]: nothing, an object of unparsable fields, data.
LiveOnloadEvent(published) ==
  IF published = Undefined THEN "LiveOnloadAbsent"
  ELSE IF published[1].dwjz = Undefined THEN "LiveOnloadMalformed"
  ELSE "LiveOnloadData"

\* The load event of a settled-net-value script, named after what the
\* script assigned: nothing, an empty array, or an array of points.
FallbackOnloadEvent(script) ==
  IF script = Undefined THEN "FallbackOnloadAbsent"
  ELSE IF Len(script[1].points) = 0 THEN "FallbackOnloadMalformed"
  ELSE "FallbackOnloadData"

\* fetchRealTimeEstimate, script.onload: the value the promise resolves
\* with, null (Undefined) when window[dataKey] is not set.
fetchRealTimeEstimateOnload(fundCode, published) ==
  IF published # Undefined
    THEN LET data == published[1]
         IN  <<[code             |-> fundCode,
                estimateNetWorth |-> ParseFloatOr0(data.gsz),
                dayGrowth        |-> ParseFloatOr0(data.gszzl),
                netWorth         |-> ParseFloatOr0(data.dwjz),
                time             |-> IF data.gztime = Undefined
                                       THEN "" ELSE data.gztime[1]]>>
    ELSE Undefined

\* fetchLatestNetWorth, script.onload: the value the promise resolves with,
\* or Undefined when it rejects ('无法获取净值数据').
fetchLatestNetWorthOnload(fundCode, global) ==
  IF global.defined /\ Len(global.points) > 0
    THEN LET latest == global.points[Len(global.points)]
         IN  <<[code             |-> fundCode,
                estimateNetWorth |-> ParseFloatOr0(latest.y),
                dayGrowth        |-> ParseFloatOr0(latest.equityReturn),
                netWorth         |-> ParseFloatOr0(latest.y),
                time             |-> ""]>>
    ELSE Undefined

\* One getFundEstimate(fundCode) call of a batch: the promise's status for
\* Promise.allSettled ("pending", "fulfilled", "rejected"), the request it
\* has dispatched last ("live" or "fallback") and the value it resolved with.
NewRequest(fundCode) ==
  [code |-> fundCode, status |-> "pending", stage |-> "live",
   value |-> Undefined]

\* Mutant: the settled net value is fetched whatever the live path gave.
getFundEstimateAfterLive_alwaysFallback(r, estimateResult) ==
  [r EXCEPT !.stage = "fallback"]

\* getFundEstimate after fetchRealTimeEstimate resolved with estimateResult:
\* return it when there is one, otherwise call fetchLatestNetWorth.
getFundEstimateAfterLive(r, estimateResult) ==
  IF estimateResult # Undefined
    THEN [r EXCEPT !.status = "fulfilled", !.value = estimateResult]
    ELSE [r EXCEPT !.stage = "fallback"]

\* getFundEstimate after fetchLatestNetWorth settled: its value is
\* returned, its error is rethrown.
getFundEstimateAfterFallback(r, netWorthResult) ==
  IF netWorthResult # Undefined
    THEN [r EXCEPT !.status = "fulfilled", !.value = netWorthResult]
    ELSE [r EXCEPT !.status = "rejected"]

\* FundAPI.getBatchFundEstimate once every getFundEstimate has settled:
\* each rejection is caught and becomes null, Promise.all gathers the
\* values in order and the nulls are filtered out.
RECURSIVE getBatchFundEstimate(_, _)
getBatchFundEstimate(requests, k) ==
  IF k = 0 THEN <<>>
  ELSE LET caught == IF requests[k].status = "rejected"
                       THEN Undefined ELSE requests[k].value
           before == getBatchFundEstimate(requests, k - 1)
       IN  IF caught # Undefined THEN Append(before, caught[1]) ELSE before

\* ------------------------------------------------------------------ state
VARIABLES
  holdings,            \* AppState.holdings
  isLoading,           \* AppState.isLoading
  lastRefreshTime,     \* AppState.lastRefreshTime, 0 = never
  storeItem,           \* localStorage['fundHoldings'], the Holdings Store
  clock,               \* Date.now()
  page,                \* "loading" | "ready" (initApp ran) | "broken" (it threw)
  batchNow,            \* the const now of the refreshNetValues call in flight, else 0
  requests,            \* the getFundEstimate promises of the latest batch
  Data_netWorthTrend,  \* the global the settled-net-value scripts assign
  summaryCard,         \* what the summary card shows
  lastCall,            \* the task that ran last and what it did
  lateScripts,         \* script elements removed by their timeout, still loading
  cacheItem,           \* localStorage['fundCache'], the Valuation Cache
  transactionsItem,    \* localStorage['transactions']
  settingsItem,        \* localStorage['settings']
  nowMs,               \* Date.now() as Storage reads it, in milliseconds
  cacheCall,           \* the Storage call made last and what it returned
  calcCall,            \* the Calculator call made last and what it returned
  jsonpCalls           \* the JSONP requests made, each with its callback,
                       \* timer and script element

\* The state of the index page and of the requests it has in flight.
appVars == <<holdings, isLoading, lastRefreshTime, storeItem, clock, page,
             batchNow, requests, Data_netWorthTrend, summaryCard, lastCall>>

\* The state the index page never touches: refreshNetValues and
\* getFundEstimate make no Storage cache call and keep no removed script.
auxVars == <<lateScripts, cacheItem, transactionsItem, settingsItem, nowMs,
             cacheCall, calcCall, jsonpCalls>>

vars == <<holdings, isLoading, lastRefreshTime, storeItem, clock, page,
          batchNow, requests, Data_netWorthTrend, summaryCard, lastCall,
          lateScripts, cacheItem, transactionsItem, settingsItem, nowMs,
          cacheCall, calcCall, jsonpCalls>>

\* No Storage or Calculator call has been made yet.
NoCall == [op |-> "none"]

\* Date.now() in milliseconds when the first Storage call is made.
StorageOpenTime == 1000000

\* Date.now() when the page is opened: some time since the epoch, in
\* minutes, far more than one refresh interval.
PageOpenTime == refreshInterval * 1000

\* What the task that ran last did: the event it handled; what the
\* refreshNetValues call it made came to ("notcalled", "busy", "gated",
\* "empty", "fetch") and whether that call ran updateSummaryCard before any
\* request; for the task that completed a batch, whether an estimate was
\* merged ("success", "nosuccess"), how Storage.saveHoldings ended ("ok",
\* "failed") and the Utils.toast shown ("updated", "failed").
Call(event, refresh, recomputed) ==
  [event |-> event, refresh |-> refresh, recomputed |-> recomputed,
   settled |-> "none", saved |-> "none", toast |-> "none"]

Init ==
  /\ holdings = <<>>
  /\ isLoading = FALSE
  /\ lastRefreshTime = 0
  /\ storeItem \in {NoItem} \cup {JSONstringify(l) : l \in StoredLists}
  /\ clock = PageOpenTime
  /\ page = "loading"
  /\ batchNow = 0
  /\ requests = <<>>
  /\ Data_netWorthTrend = TrendUndefined
  /\ summaryCard = BlankCard
  /\ lastCall = Call("none", "notcalled", FALSE)
  /\ lateScripts = {}
  /\ cacheItem = NoItem
  /\ transactionsItem = NoItem
  /\ settingsItem = NoItem
  /\ nowMs = StorageOpenTime
  /\ cacheCall = NoCall
  /\ calcCall = NoCall
  /\ jsonpCalls = <<>>

\* -------------------------------------------------------- refreshNetValues
\* Mutant: the guard against a refresh in flight is missing.
RefreshInFlight_never == FALSE

\* if (AppState.isLoading) return;
RefreshInFlight == isLoading

\* Mutant: the interval is not consulted.
shouldFetch_always(now) == TRUE

\* lastRefreshTime === 0 || now - lastRefreshTime >= refreshInterval
shouldFetch(now) ==
  lastRefreshTime = 0 \/ now - lastRefreshTime >= refreshInterval

\* Mutant: the resident summary is shown only when no fetch follows (the
\* fetch's completion being left to show it).
ShowResidentSummary_unlessFetching(card, resident, fetch) ==
  IF fetch THEN card ELSE updateSummaryCard(calculateSummary(resident))

\* Lines 505-506: the card after the summary of the resident holdings was
\* computed and shown; the code does it whatever the card showed and
\* whether or not a fetch follows.
ShowResidentSummary(card, resident, fetch) ==
  updateSummaryCard(calculateSummary(resident))

\* Mutant: setRefreshing(false) sits at the end of the try block instead of
\* in a finally clause, so an exception skips it.
LoadingAfterBatch_noFinally(threw) == threw

\* The finally clause, setRefreshing(false): isLoading after the batch,
\* whether or not the try block threw.
LoadingAfterBatch(threw) == FALSE

\* Mutant: the refresh time is stamped when the requests are sent.
RefreshClockAtDispatch_stamps(last, now, fetch) ==
  IF fetch THEN now ELSE last

\* AppState.lastRefreshTime after refreshNetValues has run up to its
\* await or to an early return: no statement before line 547 assigns it.
RefreshClockAtDispatch(last, now, fetch) == last

\* refreshNetValues() up to its await, called from the handler of event
\* with the holdings hs in memory.
refreshNetValues(event, hs) ==
  IF RefreshInFlight
    THEN /\ lastCall' = Call(event, "busy", FALSE)
         /\ UNCHANGED <<isLoading, lastRefreshTime, storeItem, batchNow,
                        requests, Data_netWorthTrend, summaryCard>>
    ELSE LET now == clock
             fetch == shouldFetch(now)
         IN  /\ summaryCard' = ShowResidentSummary(summaryCard, hs, fetch)
             /\ lastRefreshTime' =
                  RefreshClockAtDispatch(lastRefreshTime, now, fetch)
             /\ UNCHANGED <<storeItem, Data_netWorthTrend>>
             /\ IF ~fetch
                  THEN /\ lastCall' = Call(event, "gated", TRUE)
                       /\ UNCHANGED <<isLoading, batchNow, requests>>
                  ELSE IF Len(hs) = 0
                    \* setRefreshing(true); codes is empty: return, and
                    \* finally setRefreshing(false), all in this task.
                    THEN /\ lastCall' = Call(event, "empty", TRUE)
                         /\ isLoading' = LoadingAfterBatch(FALSE)
                         /\ UNCHANGED <<batchNow, requests>>
                    ELSE /\ lastCall' = Call(event, "fetch", TRUE)
                         /\ isLoading' = TRUE
                         /\ batchNow' = now
                         /\ requests' = [k \in 1..Len(hs) |->
                                           NewRequest(hs[k].code)]

\* initApp on DOMContentLoaded: loadHoldings, renderHoldings,
\* refreshNetValues, bindEvents.  A throwing renderHoldings ends it there.
InitApp ==
  /\ page = "loading"
  /\ UNCHANGED auxVars
  /\ LET loaded == getHoldings(storeItem)
     IN  /\ holdings' = loaded
         /\ UNCHANGED clock
         /\ IF renderHoldingsThrows(loaded)
              THEN /\ page' = "broken"
                   /\ lastCall' = Call("initApp", "notcalled", FALSE)
                   /\ UNCHANGED <<isLoading, lastRefreshTime, storeItem,
                                  batchNow, requests, Data_netWorthTrend,
                                  summaryCard>>
              ELSE /\ page' = "ready"
                   /\ refreshNetValues("initApp", loaded)

\* The refresh button's click handler and the pull-down gesture, both
\* bound by bindEvents.
TriggerRefresh ==
  /\ page = "ready"
  /\ refreshNetValues("trigger", holdings)
  /\ UNCHANGED <<holdings, clock, page>>
  /\ UNCHANGED auxVars

\* The document's visibilitychange handler with the page becoming visible
\* (once the document has been loaded).
VisibilityChange ==
  /\ page # "loading"
  /\ IF clock - lastRefreshTime >= refreshInterval
       THEN refreshNetValues("visibilitychange", holdings)
       ELSE /\ lastCall' = Call("visibilitychange", "notcalled", FALSE)
            /\ UNCHANGED <<isLoading, lastRefreshTime, storeItem, batchNow,
                           requests, Data_netWorthTrend, summaryCard>>
  /\ UNCHANGED <<holdings, clock, page>>
  /\ UNCHANGED auxVars

\* Time passes.
Tick ==
  /\ clock < PageOpenTime + MaxElapsed
  /\ clock' = clock + 1
  /\ lastCall' = Call("tick", "notcalled", FALSE)
  /\ UNCHANGED <<holdings, isLoading, lastRefreshTime, storeItem, page,
                 batchNow, requests, Data_netWorthTrend, summaryCard>>
  /\ UNCHANGED auxVars

\* ------------------------------------------------ the batch's completion
\* Mutant: Promise.all without the per-promise catch, which settles as soon
\* as one promise rejects.
AllSettled_failFast(rs) ==
  \/ \A k \in 1..Len(rs) : rs[k].status = "fulfilled"
  \/ \E k \in 1..Len(rs) : rs[k].status = "rejected"

\* Promise.allSettled settles once every promise has settled.
AllSettled(rs) == \A k \in 1..Len(rs) : rs[k].status # "pending"

\* AppState.holdings.find(h => h.code === code): the first index, 0 if none.
FindByCode(hs, code) ==
  IF \E k \in 1..Len(hs) : hs[k].code = code
    THEN CHOOSE k \in 1..Len(hs) :
           /\ hs[k].code = code
           /\ \A j \in 1..(k - 1) : hs[j].code # code
    ELSE 0

\* result.status === 'fulfilled' && result.value
Delivered(r) == r.status = "fulfilled" /\ r.value # Undefined

\* Mutant: the reported net value is stored as it is.
MergeEstimate_overwrites(holding, estimate) ==
  [holding EXCEPT
     !.lastNav      = <<estimate.netWorth>>,
     !.dayChange    = OrNum(<<estimate.dayGrowth>>, <<0>>),
     !.estimateTime = <<estimate.time>>]

\* Lines 534-536: the holding after a delivered estimate was merged in.
MergeEstimate(holding, estimate) ==
  [holding EXCEPT
     !.lastNav      = OrNum(<<estimate.netWorth>>,
                            OrNum(holding.lastNav, <<holding.costPrice>>)),
     !.dayChange    = OrNum(<<estimate.dayGrowth>>, <<0>>),
     !.estimateTime = <<estimate.time>>]

\* Mutant: a failed lookup is merged as "no change today".
MergeResult_zeroesFailed(hs, r) ==
  IF Delivered(r) /\ FindByCode(hs, r.value[1].code) # 0
    THEN LET at == FindByCode(hs, r.value[1].code)
         IN  [hs EXCEPT ![at] = MergeEstimate(hs[at], r.value[1])]
    ELSE IF r.status = "rejected" /\ FindByCode(hs, r.code) # 0
      THEN [hs EXCEPT ![FindByCode(hs, r.code)].dayChange = <<0>>]
      ELSE hs

\* One pass of results.forEach (lines 528-540) over result r.
MergeResult(hs, r) ==
  IF Delivered(r) /\ FindByCode(hs, r.value[1].code) # 0
    THEN LET at == FindByCode(hs, r.value[1].code)
         IN  [hs EXCEPT ![at] = MergeEstimate(hs[at], r.value[1])]
    ELSE hs

\* The holdings after results.forEach went over results[1..k].
RECURSIVE MergeResults(_, _, _)
MergeResults(hs, rs, k) ==
  IF k = 0 THEN hs ELSE MergeResult(MergeResults(hs, rs, k - 1), rs[k])

\* The flag updated after the forEach.
Updated(hs, rs) ==
  \E k \in 1..Len(rs) :
    Delivered(rs[k]) /\ FindByCode(hs, rs[k].value[1].code) # 0

\* Mutant: the merged holdings are never saved.
PersistAfterBatch_never(item, merged, updated, quotaOk) ==
  [item |-> item, saved |-> "none"]

\* Lines 542-545: the store after the batch and how the write ended;
\* Storage.saveHoldings is called only when updated.
PersistAfterBatch(item, merged, updated, quotaOk) ==
  IF updated
    THEN LET written == saveHoldings(item, merged, quotaOk)
         IN  [item  |-> written.item,
              saved |-> IF written.ok THEN "ok" ELSE "failed"]
    ELSE [item |-> item, saved |-> "none"]

\* Mutant: the refresh time is the time the batch completed.
RefreshClockAfterBatch_completionTime(last, now, updated) ==
  IF updated THEN clock ELSE last

\* Mutant: the refresh clock advances after every batch.
RefreshClockAfterBatch_always(last, now, updated) == now

\* Lines 542-548: lastRefreshTime after the batch.
RefreshClockAfterBatch(last, now, updated) ==
  IF updated THEN now ELSE last

\* Mutant: a failed Storage.saveHoldings raises like a failed render.
ProcessingThrows_onFailedSave(merged, saved) ==
  renderHoldingsThrows(merged) \/ saved = "failed"

\* Whether lines 526-557 raise: nothing in the merge does, saveHoldings
\* returns false instead of raising, and renderHoldings may.
ProcessingThrows(merged, saved) == renderHoldingsThrows(merged)

\* A task settled some getFundEstimate promise, leaving the requests rs.
\* While one is pending nothing else happens; once all have settled the
\* rest of refreshNetValues (lines 526-563) runs in the same task.
\* (results, merged and shown are bound as values, to be computed once.)
Settle(event, rs, global) ==
  \E results \in {rs} :
    /\ requests' = results
    /\ Data_netWorthTrend' = global
    /\ UNCHANGED <<clock, page>>
    /\ UNCHANGED auxVars
    /\ IF ~AllSettled(results)
         THEN /\ lastCall' = Call(event, "notcalled", FALSE)
              /\ UNCHANGED <<holdings, isLoading, lastRefreshTime, storeItem,
                             summaryCard, batchNow>>
         ELSE \E quotaOk \in BOOLEAN,
                 merged \in {MergeResults(holdings, results, Len(results))} :
              \E shown \in {updateSummaryCard(calculateSummary(merged))} :
                LET updated == Updated(holdings, results)
                    persist == PersistAfterBatch(storeItem, merged, updated,
                                                 quotaOk)
                    threw   == ProcessingThrows(merged, persist.saved)
                IN  /\ holdings' = merged
                    /\ batchNow' = 0
                    /\ storeItem' = persist.item
                    /\ lastRefreshTime' =
                         RefreshClockAfterBatch(lastRefreshTime, batchNow,
                                                updated)
                    /\ summaryCard' = IF threw THEN summaryCard ELSE shown
                    /\ lastCall' =
                         [Call(event, "notcalled", FALSE) EXCEPT
                            !.settled = IF updated THEN "success"
                                        ELSE "nosuccess",
                            !.saved   = persist.saved,
                            !.toast   = IF threw THEN "failed"
                                        ELSE IF updated THEN "updated"
                                        ELSE "none"]
                    /\ isLoading' = LoadingAfterBatch(threw)

\* ------------------------------------------- the provider's answers, timers
\* Request k of the batch in flight is waiting for its live-estimate script.
LivePending(k) ==
  /\ isLoading /\ k \in 1..Len(requests)
  /\ requests[k].status = "pending" /\ requests[k].stage = "live"

\* Request k is waiting for its settled-net-value script.
FallbackPending(k) ==
  /\ isLoading /\ k \in 1..Len(requests)
  /\ requests[k].status = "pending" /\ requests[k].stage = "fallback"

\* The live-estimate script of request k has loaded and run: script.onload.
LiveOnload(k) ==
  /\ LivePending(k)
  /\ \E published \in LivePublished(requests[k].code) :
       Settle(LiveOnloadEvent(published),
              [requests EXCEPT ![k] =
                 getFundEstimateAfterLive(@,
                   fetchRealTimeEstimateOnload(requests[k].code, published))],
              Data_netWorthTrend)

\* The live-estimate script failed to load: script.onerror resolves null.
LiveOnerror(k) ==
  /\ LivePending(k)
  /\ Settle("LiveOnerror",
            [requests EXCEPT ![k] = getFundEstimateAfterLive(@, Undefined)],
            Data_netWorthTrend)

\* The 3000 ms timer of the live-estimate request fired: resolves null.
LiveTimeout(k) ==
  /\ LivePending(k)
  /\ Settle("LiveTimeout",
            [requests EXCEPT ![k] = getFundEstimateAfterLive(@, Undefined)],
            Data_netWorthTrend)

\* The settled-net-value script of request k has loaded and run.
FallbackOnload(k) ==
  /\ FallbackPending(k)
  /\ \E script \in TrendScripts(requests[k].code) :
       LET global == RunTrendScript(Data_netWorthTrend, script)
       IN  Settle(FallbackOnloadEvent(script),
                  [requests EXCEPT ![k] =
                     getFundEstimateAfterFallback(@,
                       fetchLatestNetWorthOnload(requests[k].code, global))],
                  global)

\* The settled-net-value script failed to load: rejects 'API 请求失败'.
FallbackOnerror(k) ==
  /\ FallbackPending(k)
  /\ Settle("FallbackOnerror",
            [requests EXCEPT ![k] = getFundEstimateAfterFallback(@, Undefined)],
            Data_netWorthTrend)

\* The config.timeout (10000 ms) timer of the settled-net-value request
\* fired: rejects '请求超时'.
FallbackTimeout(k) ==
  /\ FallbackPending(k)
  /\ Settle("FallbackTimeout",
            [requests EXCEPT ![k] = getFundEstimateAfterFallback(@, Undefined)],
            Data_netWorthTrend)

\* ---------------------------------------------------------- specification
Next ==
  \/ InitApp
  \/ TriggerRefresh
  \/ VisibilityChange
  \/ Tick
  \/ \E k \in 1..Len(requests) : LiveOnload(k)
  \/ \E k \in 1..Len(requests) : LiveOnerror(k)
  \/ \E k \in 1..Len(requests) : LiveTimeout(k)
  \/ \E k \in 1..Len(requests) : FallbackOnload(k)
  \/ \E k \in 1..Len(requests) : FallbackOnerror(k)
  \/ \E k \in 1..Len(requests) : FallbackTimeout(k)

Spec == Init /\ [][Next]_vars

\* The most requests a batch holds: the longest stored list.
MaxRequests ==
  CHOOSE n \in 0..4 : /\ \A l \in StoredLists : Len(l) <= n
                      /\ \E m \in StoredLists : Len(m) = n

\* Every timer that is set fires unless its request is answered first, and
\* the browser runs every task it has queued.
FairSpec ==
  /\ Spec
  /\ \A k \in 1..MaxRequests :
       WF_vars(LiveTimeout(k)) /\ WF_vars(FallbackTimeout(k))

\* ------------------------------------- the index page and another page
\* The index page refreshing while another page of the application, open
\* in a second tab on the same localStorage, adds or deletes a holding.
\* The holding added is of CodeB; the holding deleted is any stored one.
OtherTabAddHolding ==
  /\ page = "ready"
  /\ \E quotaOk \in BOOLEAN :
       storeItem' = addHolding(storeItem, HoldingB(FALSE), "id_2",
                               quotaOk).item
  /\ lastCall' = Call("addHolding", "notcalled", FALSE)
  /\ UNCHANGED <<holdings, isLoading, lastRefreshTime, clock, page,
                 batchNow, requests, Data_netWorthTrend, summaryCard>>
  /\ UNCHANGED auxVars

OtherTabDeleteHolding ==
  /\ page = "ready"
  /\ \E id \in {"id_1", "id_2"}, quotaOk \in BOOLEAN :
       storeItem' = deleteHolding(storeItem, id, quotaOk).item
  /\ lastCall' = Call("deleteHolding", "notcalled", FALSE)
  /\ UNCHANGED <<holdings, isLoading, lastRefreshTime, clock, page,
                 batchNow, requests, Data_netWorthTrend, summaryCard>>
  /\ UNCHANGED auxVars

TabsNext ==
  \/ Next
  \/ OtherTabAddHolding
  \/ OtherTabDeleteHolding

TabsSpec == Init /\ [][TabsNext]_vars

\* ------------------------------------------------- FundAPI on its own
\* getFundEstimate called directly (as getBatchFundEstimate and any page
\* do), with the script elements that a timeout has removed from the
\* document: removing the element does not cancel its load, so its script
\* may still run and its onload or onerror handler may still be called.

\* Calls of getFundEstimate explored.
MaxApiCalls == 2

\* What the FundAPI calls leave alone.
ApiFrame ==
  UNCHANGED <<holdings, isLoading, lastRefreshTime, storeItem, clock, page,
              batchNow, summaryCard, cacheItem, transactionsItem,
              settingsItem, nowMs, cacheCall, calcCall, jsonpCalls>>

\* A cache in which some earlier code has put an estimate of CodeA four
\* minutes ago, with the default expiry: it has one minute left.
CachedEstimate ==
  [code |-> CodeA, estimateNetWorth |-> ProviderNav(CodeA),
   dayGrowth |-> ProviderGrowth(CodeA), netWorth |-> ProviderNav(CodeA),
   time |-> "14:30"]
WarmCache ==
  CacheText(WithEntry(EmptyCache, CodeA,
    [data       |-> CachedEstimate,
     updateTime |-> StorageOpenTime - 4 * MsPerMinute,
     expireTime |-> StorageOpenTime - 4 * MsPerMinute
                    + DefaultExpireMinutes * MsPerMinute]))

\* No page is open: only FundAPI's promises and the window's globals move.
ApiInit ==
  /\ holdings = <<>> /\ isLoading = FALSE /\ lastRefreshTime = 0
  /\ storeItem = NoItem /\ clock = PageOpenTime /\ page = "loading"
  /\ batchNow = 0 /\ summaryCard = BlankCard
  /\ requests = <<>>
  /\ Data_netWorthTrend = TrendUndefined
  /\ lastCall = Call("none", "notcalled", FALSE)
  /\ lateScripts = {}
  /\ cacheItem \in {NoItem, WarmCache}
  /\ transactionsItem = NoItem /\ settingsItem = NoItem
  /\ nowMs = StorageOpenTime /\ cacheCall = NoCall /\ calcCall = NoCall
  /\ jsonpCalls = <<>>

\* Promise request k is pending on the script of the given stage.
ApiPending(k, stage) ==
  /\ k \in 1..Len(requests)
  /\ requests[k].status = "pending" /\ requests[k].stage = stage

\* resolve or reject called on a promise that has already settled: the
\* promise, and so the getFundEstimate call built on it, keeps its outcome.
SettleAgain(r, outcome) == r

\* FundAPI.getFundEstimate(fundCode) is called.
ApiGetFundEstimate ==
  /\ Len(requests) < MaxApiCalls
  /\ \E fundCode \in {CodeA, CodeB} :
       requests' = Append(requests, NewRequest(fundCode))
  /\ lastCall' = Call("getFundEstimate", "notcalled", FALSE)
  /\ UNCHANGED <<Data_netWorthTrend, lateScripts>>
  /\ ApiFrame

\* fetchRealTimeEstimate, script.onload before the timeout.
ApiLiveOnload(k) ==
  /\ ApiPending(k, "live")
  /\ \E published \in LivePublished(requests[k].code) :
       /\ requests' = [requests EXCEPT ![k] =
            getFundEstimateAfterLive(@,
              fetchRealTimeEstimateOnload(requests[k].code, published))]
       /\ lastCall' = Call(LiveOnloadEvent(published), "notcalled", FALSE)
  /\ UNCHANGED <<Data_netWorthTrend, lateScripts>>
  /\ ApiFrame

\* fetchRealTimeEstimate, script.onerror before the timeout.
ApiLiveOnerror(k) ==
  /\ ApiPending(k, "live")
  /\ requests' = [requests EXCEPT ![k] = getFundEstimateAfterLive(@, Undefined)]
  /\ lastCall' = Call("LiveOnerror", "notcalled", FALSE)
  /\ UNCHANGED <<Data_netWorthTrend, lateScripts>>
  /\ ApiFrame

\* fetchRealTimeEstimate, the 3000 ms timer: cleanup() removes the script
\* element, whose load goes on, and the promise resolves null.
ApiLiveTimeout(k) ==
  /\ ApiPending(k, "live")
  /\ requests' = [requests EXCEPT ![k] = getFundEstimateAfterLive(@, Undefined)]
  /\ lateScripts' = lateScripts \cup {<<k, "live">>}
  /\ lastCall' = Call("LiveTimeout", "notcalled", FALSE)
  /\ UNCHANGED Data_netWorthTrend
  /\ ApiFrame

\* fetchLatestNetWorth, script.onload before the timeout.
ApiFallbackOnload(k) ==
  /\ ApiPending(k, "fallback")
  /\ \E script \in TrendScripts(requests[k].code) :
       LET global == RunTrendScript(Data_netWorthTrend, script)
       IN  /\ Data_netWorthTrend' = global
           /\ requests' = [requests EXCEPT ![k] =
                getFundEstimateAfterFallback(@,
                  fetchLatestNetWorthOnload(requests[k].code, global))]
           /\ lastCall' = Call(FallbackOnloadEvent(script), "notcalled", FALSE)
  /\ UNCHANGED lateScripts
  /\ ApiFrame

\* fetchLatestNetWorth, script.onerror before the timeout.
ApiFallbackOnerror(k) ==
  /\ ApiPending(k, "fallback")
  /\ requests' = [requests EXCEPT ![k] =
                    getFundEstimateAfterFallback(@, Undefined)]
  /\ lastCall' = Call("FallbackOnerror", "notcalled", FALSE)
  /\ UNCHANGED <<Data_netWorthTrend, lateScripts>>
  /\ ApiFrame

\* fetchLatestNetWorth, the config.timeout timer: cleanup() removes the
\* script element, whose load goes on, and the promise rejects.
ApiFallbackTimeout(k) ==
  /\ ApiPending(k, "fallback")
  /\ requests' = [requests EXCEPT ![k] =
                    getFundEstimateAfterFallback(@, Undefined)]
  /\ lateScripts' = lateScripts \cup {<<k, "fallback">>}
  /\ lastCall' = Call("FallbackTimeout", "notcalled", FALSE)
  /\ UNCHANGED Data_netWorthTrend
  /\ ApiFrame

\* The live-estimate script of request k loads after its timeout.  What it
\* leaves in window[dataKey] is read and deleted by its onload handler in
\* the same task, and resolve() finds the promise settled.
ApiLateLiveOnload(k) ==
  /\ <<k, "live">> \in lateScripts
  /\ \E published \in LivePublished(requests[k].code) :
       requests' = [requests EXCEPT ![k] =
         SettleAgain(@, getFundEstimateAfterLive(@,
           fetchRealTimeEstimateOnload(requests[k].code, published)))]
  /\ lateScripts' = lateScripts \ {<<k, "live">>}
  /\ lastCall' = Call("LateLiveOnload", "notcalled", FALSE)
  /\ UNCHANGED Data_netWorthTrend
  /\ ApiFrame

\* The settled-net-value script of request k loads after its timeout: it
\* runs, assigning the global as any such script does, and resolve() or
\* reject() in its onload handler finds the promise settled.
ApiLateFallbackOnload(k) ==
  /\ <<k, "fallback">> \in lateScripts
  /\ \E script \in TrendScripts(requests[k].code) :
       LET global == RunTrendScript(Data_netWorthTrend, script)
       IN  /\ Data_netWorthTrend' = global
           /\ requests' = [requests EXCEPT ![k] =
                SettleAgain(@, getFundEstimateAfterFallback(@,
                  fetchLatestNetWorthOnload(requests[k].code, global)))]
  /\ lateScripts' = lateScripts \ {<<k, "fallback">>}
  /\ lastCall' = Call("LateFallbackOnload", "notcalled", FALSE)
  /\ ApiFrame

\* A removed script fails to load: its onerror handler finds the promise
\* settled.
ApiLateOnerror(k) ==
  /\ \E stage \in {"live", "fallback"} :
       /\ <<k, stage>> \in lateScripts
       /\ lateScripts' = lateScripts \ {<<k, stage>>}
  /\ requests' = [requests EXCEPT ![k] = SettleAgain(@, @)]
  /\ lastCall' = Call("LateOnerror", "notcalled", FALSE)
  /\ UNCHANGED Data_netWorthTrend
  /\ ApiFrame

ApiNext ==
  \/ ApiGetFundEstimate
  \/ \E k \in 1..Len(requests) : ApiLiveOnload(k)
  \/ \E k \in 1..Len(requests) : ApiLiveOnerror(k)
  \/ \E k \in 1..Len(requests) : ApiLiveTimeout(k)
  \/ \E k \in 1..Len(requests) : ApiFallbackOnload(k)
  \/ \E k \in 1..Len(requests) : ApiFallbackOnerror(k)
  \/ \E k \in 1..Len(requests) : ApiFallbackTimeout(k)
  \/ \E k \in 1..Len(requests) : ApiLateLiveOnload(k)
  \/ \E k \in 1..Len(requests) : ApiLateFallbackOnload(k)
  \/ \E k \in 1..Len(requests) : ApiLateOnerror(k)

ApiSpec == ApiInit /\ [][ApiNext]_vars

\* ------------------------------------------------ Storage on its own
\* The cache functions of Storage called by any page, in any order, as
\* time passes.

\* Storage calls explored, minutes of time explored, and how many
\* milliseconds past a whole minute the clock is followed.
MaxStorageCalls == 2
MaxCacheMinutes == 2
MaxSkewMs == 1

\* The keys, data and expireMinutes arguments explored (Undefined: the
\* argument is omitted).
CacheKeys == {CodeA, CodeB}
CacheData == {CachedEstimate, [CachedEstimate EXCEPT !.time = "15:00"]}
ExpireMinutes == {Undefined, <<1>>}

\* The other items of localStorage as an earlier session left them.
StoredText(text) == [present |-> TRUE, text |-> text]

\* What the Storage calls leave alone.
StorageFrame ==
  UNCHANGED <<holdings, isLoading, lastRefreshTime, clock, page, batchNow,
              requests, Data_netWorthTrend, summaryCard, lastCall,
              lateScripts, calcCall, jsonpCalls>>

StorageInit ==
  /\ holdings = <<>> /\ isLoading = FALSE /\ lastRefreshTime = 0
  /\ clock = PageOpenTime /\ page = "loading" /\ batchNow = 0
  /\ requests = <<>> /\ Data_netWorthTrend = TrendUndefined
  /\ summaryCard = BlankCard
  /\ lastCall = Call("none", "notcalled", FALSE)
  /\ lateScripts = {} /\ calcCall = NoCall /\ jsonpCalls = <<>>
  /\ storeItem = JSONstringify(<<HoldingA(FALSE)>>)
  /\ transactionsItem = StoredText("transactions")
  /\ settingsItem = StoredText("settings")
  /\ cacheItem \in {NoItem, NullText, CorruptText, WarmCache}
  /\ nowMs = StorageOpenTime
  /\ cacheCall = [NoCall EXCEPT !.op = "none"] @@ [n |-> 0]

\* Another Storage call may be made.
MayCall == cacheCall.n < MaxStorageCalls

\* The clock may be followed one more millisecond.
MayTickMs == (nowMs - StorageOpenTime) % MsPerMinute < MaxSkewMs

\* Storage.setCache(key, data, expireMinutes) is called; the clock may
\* move on between its two readings of Date.now().
StorageSetCache ==
  /\ MayCall
  /\ \E key \in CacheKeys, data \in CacheData, expireMinutes \in ExpireMinutes,
        quotaOk \in BOOLEAN,
        now2 \in {nowMs} \cup (IF MayTickMs THEN {nowMs + 1} ELSE {}) :
       LET r == setCache(cacheItem, key, data, expireMinutes, nowMs, now2,
                         quotaOk)
       IN  /\ cacheItem' = r.item
           /\ nowMs' = now2
           /\ cacheCall' = [op |-> "setCache", key |-> <<key>>, data |-> <<data>>,
                            expireMinutes |-> expireMinutes, at |-> nowMs,
                            raised |-> r.raised, returned |-> r.returned,
                            n |-> cacheCall.n + 1]
  /\ UNCHANGED <<storeItem, transactionsItem, settingsItem>>
  /\ StorageFrame

\* Storage.getCache(key) or Storage.getCache() is called.
StorageGetCache ==
  /\ MayCall
  /\ \E key \in {Undefined} \cup {<<k>> : k \in CacheKeys} :
       LET r == getCache(cacheItem, key, nowMs)
       IN  cacheCall' = [op |-> "getCache", key |-> key, data |-> Undefined,
                         expireMinutes |-> Undefined, at |-> nowMs,
                         raised |-> r.raised, returned |-> r.returned,
                         n |-> cacheCall.n + 1]
  /\ UNCHANGED <<cacheItem, nowMs, storeItem, transactionsItem, settingsItem>>
  /\ StorageFrame

\* Storage.clearExpiredCache() is called.
StorageClearExpiredCache ==
  /\ MayCall
  /\ \E quotaOk \in BOOLEAN :
       LET r == clearExpiredCache(cacheItem, nowMs, quotaOk)
       IN  /\ cacheItem' = r.item
           /\ cacheCall' = [op |-> "clearExpiredCache", key |-> Undefined,
                            data |-> Undefined, expireMinutes |-> Undefined,
                            at |-> nowMs, raised |-> r.raised,
                            returned |-> r.returned, n |-> cacheCall.n + 1]
  /\ UNCHANGED <<nowMs, storeItem, transactionsItem, settingsItem>>
  /\ StorageFrame

\* Storage.clearAll() is called: the four items are removed.
StorageClearAll ==
  /\ MayCall
  /\ storeItem' = NoItem /\ transactionsItem' = NoItem
  /\ cacheItem' = NoItem /\ settingsItem' = NoItem
  /\ cacheCall' = [op |-> "clearAll", key |-> Undefined, data |-> Undefined,
                   expireMinutes |-> Undefined, at |-> nowMs,
                   raised |-> FALSE, returned |-> TRUE,
                   n |-> cacheCall.n + 1]
  /\ UNCHANGED nowMs
  /\ StorageFrame

\* Time passes between two calls: a millisecond, or a minute.
StorageClock ==
  /\ \E d \in (IF MayTickMs THEN {1} ELSE {}) \cup {MsPerMinute} :
       /\ nowMs + d <= StorageOpenTime + MaxCacheMinutes * MsPerMinute + MaxSkewMs
       /\ nowMs' = nowMs + d
  /\ cacheCall' = [cacheCall EXCEPT !.op = "clock"]
  /\ UNCHANGED <<cacheItem, storeItem, transactionsItem, settingsItem>>
  /\ StorageFrame

StorageNext ==
  \/ StorageSetCache
  \/ StorageGetCache
  \/ StorageClearExpiredCache
  \/ StorageClearAll
  \/ StorageClock

StorageSpec == StorageInit /\ [][StorageNext]_vars

\* ------------------------------------------ the holdings store on its own
\* Calls of Storage.addHolding, updateHolding, deleteHolding, exportData
\* and importData on a store that starts without holdings.
MaxHoldingCalls == 3

\* generateId(): 'id_' + Date.now() + '_' + random, a new id at each call.
GeneratedIds == <<"id_1", "id_2", "id_3", "id_4", "id_5">>
generateId(n) == GeneratedIds[n + 1]

\* The ids asked for: ones generateId hands out, and one it never does.
AskedIds == {"id_1", "id_2", "id_none"}

\* The data given to updateHolding.
UpdateData == {[shares |-> 5], [code |-> CodeA, costPrice |-> 12000]}

\* The writes localStorage refuses during one importData.
Refusals ==
  {{}, {"holdings"}, {"transactions"}, {"settings"},
   {"holdings", "transactions", "settings"}}

\* A file that is not an export of the application: version is missing.
ForeignFile ==
  << [holdings |-> <<HoldingB(FALSE)>>, transactions |-> <<>>,
      settings |-> EmptySettings, version |-> ""] >>

\* The transactions and settings found in localStorage.
StoredTransactions == <<[id |-> "id_0", code |-> CodeA, type |-> "buy"]>>
StoredSettings == [theme |-> <<"dark">>]

HoldingsFrame ==
  UNCHANGED <<holdings, isLoading, lastRefreshTime, clock, page, batchNow,
              requests, Data_netWorthTrend, summaryCard, lastCall,
              lateScripts, cacheItem, nowMs, calcCall, jsonpCalls>>

\* The record of the last call: onlyAddDelete says that every call so far
\* was addHolding or deleteHolding, exported is the last export taken.
HoldingsCall(op, id, data, ok, raised, returned, onlyAddDelete, exported) ==
  [op |-> op, id |-> id, data |-> data, ok |-> ok, raised |-> raised,
   returned |-> returned, n |-> cacheCall.n + 1,
   onlyAddDelete |-> onlyAddDelete, exported |-> exported]

HoldingsInit ==
  /\ holdings = <<>> /\ isLoading = FALSE /\ lastRefreshTime = 0
  /\ clock = PageOpenTime /\ page = "loading" /\ batchNow = 0
  /\ requests = <<>> /\ Data_netWorthTrend = TrendUndefined
  /\ summaryCard = BlankCard
  /\ lastCall = Call("none", "notcalled", FALSE)
  /\ lateScripts = {} /\ calcCall = NoCall /\ jsonpCalls = <<>>
  /\ cacheItem = NoItem /\ nowMs = StorageOpenTime
  /\ storeItem = NoItem
  /\ transactionsItem \in {NoItem, JSONstringify(StoredTransactions)}
  /\ settingsItem \in {NoItem, JSONstringify(StoredSettings)}
  /\ cacheCall = [op |-> "none", id |-> Undefined, data |-> Undefined,
                  ok |-> TRUE, raised |-> FALSE, returned |-> Undefined,
                  n |-> 0, onlyAddDelete |-> TRUE, exported |-> Undefined]

MayCallHoldings == cacheCall.n < MaxHoldingCalls

StoreAddHolding ==
  /\ MayCallHoldings
  /\ \E holding \in {HoldingA(FALSE), HoldingB(FALSE)}, quotaOk \in BOOLEAN :
       LET r == addHolding(storeItem, holding, generateId(cacheCall.n),
                           quotaOk)
       IN  /\ storeItem' = r.item
           /\ cacheCall' = HoldingsCall("addHolding", Undefined, holding,
                                        quotaOk, r.raised, r.returned,
                                        cacheCall.onlyAddDelete,
                                        cacheCall.exported)
  /\ UNCHANGED <<transactionsItem, settingsItem>>
  /\ HoldingsFrame

StoreUpdateHolding ==
  /\ MayCallHoldings
  /\ \E id \in AskedIds, data \in UpdateData, quotaOk \in BOOLEAN :
       LET r == updateHolding(storeItem, id, data, quotaOk)
       IN  /\ storeItem' = r.item
           /\ cacheCall' = HoldingsCall("updateHolding", id, data, quotaOk,
                                        r.raised, r.returned, FALSE,
                                        cacheCall.exported)
  /\ UNCHANGED <<transactionsItem, settingsItem>>
  /\ HoldingsFrame

StoreDeleteHolding ==
  /\ MayCallHoldings
  /\ \E id \in AskedIds, quotaOk \in BOOLEAN :
       LET r == deleteHolding(storeItem, id, quotaOk)
       IN  /\ storeItem' = r.item
           /\ cacheCall' = HoldingsCall("deleteHolding", id, Undefined,
                                        quotaOk, r.raised, r.returned,
                                        cacheCall.onlyAddDelete,
                                        cacheCall.exported)
  /\ UNCHANGED <<transactionsItem, settingsItem>>
  /\ HoldingsFrame

StoreExportData ==
  /\ MayCallHoldings
  /\ LET text == exportData(storeItem, transactionsItem, settingsItem)
     IN  cacheCall' = HoldingsCall("exportData", Undefined, Undefined, TRUE,
                                   FALSE, text, FALSE, text)
  /\ UNCHANGED <<storeItem, transactionsItem, settingsItem>>
  /\ HoldingsFrame

\* importData is given the export just taken of the store as it is, the
\* export taken earlier, or a file of another origin.
StoreImportData ==
  /\ MayCallHoldings
  /\ \E jsonString \in
          {exportData(storeItem, transactionsItem, settingsItem),
           cacheCall.exported, ForeignFile},
        refused \in Refusals :
       LET r == importData(storeItem, transactionsItem, settingsItem,
                           jsonString, refused)
       IN  /\ storeItem' = r.holdings
           /\ transactionsItem' = r.transactions
           /\ settingsItem' = r.settings
           /\ cacheCall' = HoldingsCall("importData", Undefined, jsonString,
                                        refused = {}, FALSE, r.returned,
                                        FALSE, cacheCall.exported)
  /\ HoldingsFrame

HoldingsNext ==
  \/ StoreAddHolding
  \/ StoreUpdateHolding
  \/ StoreDeleteHolding
  \/ StoreExportData
  \/ StoreImportData

HoldingsSpec == HoldingsInit /\ [][HoldingsNext]_vars

\* --------------------------------------------- Calculator on its own
\* The shares (0.01 share) and the prices (0.0001 yuan) explored: none,
\* fractions of a cent's worth, and the amounts of everyday holdings.
CalcShares == {0, 1, 3, 50, 100}
CalcPrices == {0, 4000, 6000, 100000, 125000}

\* What the Calculator calls leave alone.
CalcFrame ==
  UNCHANGED <<holdings, isLoading, lastRefreshTime, storeItem, clock, page,
              batchNow, requests, Data_netWorthTrend, summaryCard, lastCall,
              lateScripts, cacheItem, transactionsItem, settingsItem, nowMs,
              cacheCall, jsonpCalls>>

CalcInit ==
  /\ holdings = <<>> /\ isLoading = FALSE /\ lastRefreshTime = 0
  /\ storeItem = NoItem /\ clock = PageOpenTime /\ page = "loading"
  /\ batchNow = 0 /\ requests = <<>> /\ Data_netWorthTrend = TrendUndefined
  /\ summaryCard = BlankCard
  /\ lastCall = Call("none", "notcalled", FALSE)
  /\ lateScripts = {}
  /\ cacheItem = NoItem /\ transactionsItem = NoItem /\ settingsItem = NoItem
  /\ nowMs = StorageOpenTime /\ cacheCall = NoCall
  /\ calcCall = NoCall /\ jsonpCalls = <<>>

\* The Calculator keeps no state, so what a call returns does not depend on
\* the calls before it: each call is explored as the first one.
FirstCall == calcCall = NoCall

\* Calculator.calculateProfit(holding, currentNav) is called.
CalcCalculateProfit ==
  /\ FirstCall
  /\ \E shares \in CalcShares, costPrice \in CalcPrices,
        currentNav \in CalcPrices :
       LET holding == Holding("id_1", CodeA, shares, costPrice, FALSE)
       IN  calcCall' = [op |-> "calculateProfit", holding |-> holding,
                        currentNav |-> currentNav,
                        returned |-> calculateProfit(holding, currentNav)]
  /\ CalcFrame

\* The holdings handed to the summary: with or without cost, refreshed or
\* not (lastNav), with or without a day change (dayChange, in 0.01 %).
CalcHolding(id, code, shares, costPrice, lastNav, dayChange) ==
  [Holding(id, code, shares, costPrice, FALSE)
     EXCEPT !.lastNav = lastNav, !.dayChange = dayChange]

CalcSummaryShares == {0, 1, 50}
CalcSummaryPrices == {0, 6000, 100000}
CalcLastNavs == {Undefined, <<0>>, <<125000>>}
CalcDayChanges == {Undefined, <<0>>, <<150>>, <<-150>>}

CalcHoldingsOf(id, code) ==
  { CalcHolding(id, code, shares, costPrice, lastNav, dayChange) :
      shares \in CalcSummaryShares, costPrice \in CalcSummaryPrices,
      lastNav \in CalcLastNavs, dayChange \in CalcDayChanges }

CalcLists ==
  {<<>>} \cup { <<a>> : a \in CalcHoldingsOf("id_1", CodeA) }
         \cup { <<a, b>> : a \in CalcHoldingsOf("id_1", CodeA),
                           b \in CalcHoldingsOf("id_2", CodeB) }

\* Calculator.calculateSummary(holdings) is called.
CalcCalculateSummary ==
  /\ FirstCall
  /\ \E list \in CalcLists :
       calcCall' = [op |-> "calculateSummary", holdings |-> list,
                    returned |-> calculateSummary(list)]
  /\ CalcFrame

\* The amounts (0.01 yuan) handed to calculateRate.
CalcAmounts == {-1000, -250, 0, 1, 250, 1000}

\* Calculator.calculateRate(profit, cost) is called.
CalcCalculateRate ==
  /\ FirstCall
  /\ \E profit \in CalcAmounts, cost \in CalcAmounts :
       calcCall' = [op |-> "calculateRate", profit |-> profit, cost |-> cost,
                    returned |-> calculateRate(profit, cost)]
  /\ CalcFrame

\* The positions a series of transactions starts from (shares >= 0 and a
\* positive cost price), and the transactions: positive shares (0.001 share)
\* and a positive amount (0.01 yuan).
CalcPositions ==
  { [shares |-> shares, costPrice |-> costPrice] :
      shares \in {0, 100}, costPrice \in {1, 100000} }

CalcTransactions ==
  { [type |-> type, shares |-> shares, amount |-> amount] :
      type \in {"buy", "sell", "convert"},
      shares \in {5, 500, 1000000}, amount \in {1, 600} }

\* The position the next transaction applies to: a starting position, or
\* the one the previous transaction left.
CalcPositionNow ==
  IF calcCall.op = "calculateAfterTransaction"
    THEN {calcCall.returned}
  ELSE IF FirstCall THEN CalcPositions
  ELSE {}

CalcTransactionsDone ==
  IF calcCall.op = "calculateAfterTransaction" THEN calcCall.n ELSE 0

\* Calculator.calculateAfterTransaction(holding, transaction) is called and
\* the holding takes the returned shares and cost price.
CalcCalculateAfterTransaction ==
  /\ CalcTransactionsDone < MaxTransactions
  /\ \E holding \in CalcPositionNow, transaction \in CalcTransactions :
       calcCall' = [op |-> "calculateAfterTransaction", holding |-> holding,
                    transaction |-> transaction,
                    returned |->
                      calculateAfterTransaction(holding, transaction),
                    n |-> CalcTransactionsDone + 1]
  /\ CalcFrame

\* The total rates (0.01 %) and holding periods handed to
\* calculateAnnualizedRate.
CalcTotalRates == {-20000, -10000, -2500, 0, 1000, 2500}
CalcDays == {0, daysPerYear}

\* Calculator.calculateAnnualizedRate(totalRate, days) is called.
CalcCalculateAnnualizedRate ==
  /\ FirstCall
  /\ \E totalRate \in CalcTotalRates, days \in CalcDays :
       calcCall' = [op |-> "calculateAnnualizedRate",
                    totalRate |-> totalRate, days |-> days,
                    returned |-> calculateAnnualizedRate(totalRate, days)]
  /\ CalcFrame

\* Calculator.calculateDistribution(holdings) is called.
CalcCalculateDistribution ==
  /\ FirstCall
  /\ \E list \in CalcLists :
       calcCall' = [op |-> "calculateDistribution", holdings |-> list,
                    returned |-> calculateDistribution(list)]
  /\ CalcFrame

CalcNext ==
  \/ CalcCalculateProfit
  \/ CalcCalculateSummary
  \/ CalcCalculateRate
  \/ CalcCalculateAfterTransaction
  \/ CalcCalculateDistribution
  \/ CalcCalculateAnnualizedRate

CalcSpec == CalcInit /\ [][CalcNext]_vars

\* ------------------------------------------------- JSONP requests
\* A request made by FundAPI.jsonp or by FundAPI.getFundEstimate of
\* fund-api.js: its promise, whether its callback is still a property of
\* window, whether its timer is pending, whether its script element is in
\* the document, and whether the load of the script is still outstanding.
\* The callback name carries Date.now() and nine random characters and is
\* taken to be fresh: the request's place in jsonpCalls stands for it.
NewJsonpCall(api) ==
  [api |-> api, status |-> "pending", callback |-> TRUE, timer |-> TRUE,
   attached |-> TRUE, loading |-> TRUE]

\* resolve or reject: a promise settles once.
SettlePromise(c, outcome) ==
  IF c.status = "pending" THEN [c EXCEPT !.status = outcome] ELSE c

\* clearTimeout(timeout); delete window[callback];
\* document.body.removeChild(script) -- the statements shared by the
\* callback and by script.onerror (cleanup() in getFundEstimate).
Cleanup(c) ==
  [c EXCEPT !.callback = FALSE, !.timer = FALSE, !.attached = FALSE]

\* Mutant: the timer's handler leaves the callback on window.
CleanupOnTimeout_keepsCallback(c) ==
  [c EXCEPT !.timer = FALSE, !.attached = FALSE]

\* The timer's handler: delete window[callback];
\* document.body.removeChild(script) -- the timer itself has fired.
CleanupOnTimeout(c) ==
  [c EXCEPT !.callback = FALSE, !.timer = FALSE, !.attached = FALSE]

\* The setTimeout handler.
JsonpOnTimeout(c) == SettlePromise(CleanupOnTimeout(c), "rejected")

\* window[callback](data): jsonp resolves with any data, getFundEstimate
\* resolves well-formed data (data && data.fundcode) and rejects other.
JsonpOnCallback(c, wellFormed) ==
  SettlePromise(Cleanup(c),
                IF c.api = "jsonp" \/ wellFormed THEN "fulfilled"
                ELSE "rejected")

\* script.onerror.
JsonpOnerror(c) == SettlePromise(Cleanup(c), "rejected")

JsonpApis == {"jsonp", "getFundEstimate"}

\* What the JSONP steps leave alone.
JsonpFrame ==
  UNCHANGED <<holdings, isLoading, lastRefreshTime, storeItem, clock, page,
              batchNow, requests, Data_netWorthTrend, summaryCard, lastCall,
              lateScripts, cacheItem, transactionsItem, settingsItem, nowMs,
              cacheCall, calcCall>>

JsonpInit == CalcInit

\* FundAPI.jsonp(url) or FundAPI.getFundEstimate(fundCode) is called: the
\* callback is put on window, the timer started, the script appended.
JsonpRequest ==
  /\ Len(jsonpCalls) < MaxJsonpCalls
  /\ \E api \in JsonpApis : jsonpCalls' = Append(jsonpCalls, NewJsonpCall(api))
  /\ JsonpFrame

\* The script of request k has loaded and runs (removing the element does
\* not cancel its load).  It calls window[callback] or it does not; a call
\* of a callback that was deleted raises a ReferenceError in the script.
JsonpScriptRuns(k) ==
  /\ k \in 1..Len(jsonpCalls) /\ jsonpCalls[k].loading
  /\ \E called \in BOOLEAN, wellFormed \in BOOLEAN :
       jsonpCalls' =
         [jsonpCalls EXCEPT ![k] =
            [(IF called /\ @.callback THEN JsonpOnCallback(@, wellFormed)
              ELSE @) EXCEPT !.loading = FALSE]]
  /\ JsonpFrame

\* The script of request k could not be loaded: script.onerror.
JsonpScriptFails(k) ==
  /\ k \in 1..Len(jsonpCalls) /\ jsonpCalls[k].loading
  /\ jsonpCalls' =
       [jsonpCalls EXCEPT ![k] = [JsonpOnerror(@) EXCEPT !.loading = FALSE]]
  /\ JsonpFrame

\* The timer of request k fires after config.timeout.
JsonpTimerFires(k) ==
  /\ k \in 1..Len(jsonpCalls) /\ jsonpCalls[k].timer
  /\ jsonpCalls' = [jsonpCalls EXCEPT ![k] = JsonpOnTimeout(@)]
  /\ JsonpFrame

JsonpNext ==
  \/ JsonpRequest
  \/ \E k \in 1..Len(jsonpCalls) : JsonpScriptRuns(k)
  \/ \E k \in 1..Len(jsonpCalls) : JsonpScriptFails(k)
  \/ \E k \in 1..Len(jsonpCalls) : JsonpTimerFires(k)

JsonpSpec == JsonpInit /\ [][JsonpNext]_vars

\* ================================================================ claims
\* The task of this step called refreshNetValues.
RefreshCalled == lastCall'.refresh # "notcalled"

\* The task of this step ran the completion of a batch of requests.
BatchCompleted == lastCall'.settled # "none"

\* ---------------------------------------------------------------------
\* C1: a call of refreshNetValues while a refresh is in flight
\* (isLoading) is a no-op that is not queued: it dispatches no request
\* and leaves the requests in flight, holdings, lastRefreshTime, isLoading
\* and the Holdings Store as they were.
C1_BusyRefreshIsNoOp ==
  [][(isLoading /\ RefreshCalled) =>
       /\ lastCall'.refresh = "busy"
       /\ UNCHANGED <<requests, batchNow, holdings, lastRefreshTime,
                      isLoading, storeItem, Data_netWorthTrend>>]_vars

\* A refresh was triggered while a request of the batch in flight had
\* already moved on to its fallback.
C1_Witness ==
  /\ isLoading /\ lastCall.refresh = "busy"
  /\ \E k \in 1..Len(requests) : requests[k].stage = "fallback"

C3_IntervalGate ==
  [][RefreshCalled =>
       IF lastRefreshTime = 0 \/ clock - lastRefreshTime >= refreshInterval
         THEN TRUE
         ELSE /\ lastCall'.refresh = "gated"
              /\ ~isLoading /\ ~isLoading'
              /\ UNCHANGED <<requests, batchNow, holdings, lastRefreshTime,
                             storeItem>>]_vars

\* A refresh was triggered less than an interval after a successful batch.
C3_Witness ==
  /\ lastCall.refresh = "gated" /\ lastRefreshTime > 0 /\ Len(holdings) > 0
  /\ clock - lastRefreshTime < refreshInterval

GateOpen == lastRefreshTime = 0 \/ clock - lastRefreshTime >= refreshInterval

\* C5: in a batch where the lookup of one holding succeeds and that of
\* another fails, the failed holding is exactly what it was before the
\* batch, the other one's lastNav, dayChange and estimateTime come from its
\* own result, and lastRefreshTime advances to the batch's start time.
C5_PartialFailureKeepsStale ==
  [][BatchCompleted =>
       \A a, b \in 1..Len(holdings) :
         ( /\ requests'[a].status = "fulfilled"
           /\ requests'[b].status = "rejected" ) =>
           LET est == requests'[a].value[1]
           IN  /\ holdings'[b] = holdings[b]
               /\ est.code = holdings[a].code
               /\ holdings'[a].lastNav =
                    IF est.netWorth # 0 THEN <<est.netWorth>>
                    ELSE IF holdings[a].lastNav \notin {Undefined, <<0>>}
                      THEN holdings[a].lastNav
                      ELSE <<holdings[a].costPrice>>
               /\ holdings'[a].dayChange = <<est.dayGrowth>>
               /\ holdings'[a].estimateTime = <<est.time>>
               /\ lastRefreshTime' = batchNow
               /\ lastRefreshTime' > lastRefreshTime]_vars

\* A batch has completed in which the first lookup succeeded and the
\* second, of a holding valued by an earlier batch, failed.
C5_Witness ==
  /\ lastCall.settled = "success" /\ Len(requests) = 2
  /\ requests[1].status = "fulfilled" /\ requests[2].status = "rejected"
  /\ holdings[2].lastNav # Undefined

\* ---------------------------------------------------------------------
\* C6: a batch in which no lookup succeeds, and a refresh over an empty
\* list, leave lastRefreshTime and the Holdings Store as they were, so
\* the interval gate is open afterwards and stays open until a batch
\* succeeds; with the gate open every trigger calls refreshNetValues, and
\* called while Idle it dispatches a request for every holding in memory.
C6_NoSuccessKeepsGateOpen ==
  [][/\ (lastCall'.settled = "nosuccess" \/ lastCall'.refresh = "empty") =>
          /\ lastRefreshTime' = lastRefreshTime
          /\ storeItem' = storeItem
          /\ GateOpen'
     /\ (GateOpen /\ lastCall'.settled # "success") => GateOpen'
     /\ (GateOpen /\ lastCall'.event \in {"trigger", "visibilitychange"}) =>
          RefreshCalled
     /\ (~isLoading /\ GateOpen /\ RefreshCalled) =>
          IF Len(holdings') = 0
            THEN lastCall'.refresh = "empty" /\ ~isLoading'
            ELSE /\ lastCall'.refresh = "fetch" /\ isLoading'
                 /\ Len(requests') = Len(holdings')
                 /\ \A k \in 1..Len(holdings') :
                      /\ requests'[k].code = holdings'[k].code
                      /\ requests'[k].status = "pending"
                      /\ requests'[k].stage = "live"]_vars

\* A batch in which no lookup succeeded has completed after an earlier
\* successful one: lastRefreshTime is still that of the earlier batch and
\* the gate is open.
C6_Witness ==
  /\ ~isLoading /\ lastCall.settled = "nosuccess" /\ Len(requests) > 0
  /\ lastRefreshTime > 0 /\ GateOpen
  /\ \E k \in 1..Len(holdings) : holdings[k].estimateTime # Undefined

\* ---------------------------------------------------------------------
\* C7 as stated: when a batch completes with at least one success, the
\* Holdings Store holds the in-memory holdings and lastRefreshTime is the
\* batch's start time.
C7_SuccessIsPersisted ==
  [][lastCall'.settled = "success" =>
       /\ getHoldings(storeItem') = holdings'
       /\ lastRefreshTime' = batchNow]_vars

\* C7 amended: when a batch completes with at least one success,
\* Storage.saveHoldings has been called with the merged holdings and
\* lastRefreshTime is the batch's start time; the store holds the
\* in-memory holdings when the write succeeded and is unchanged when
\* localStorage refused it.
C7_SuccessIsSaved ==
  [][lastCall'.settled = "success" =>
       /\ lastRefreshTime' = batchNow
       /\ lastRefreshTime' > lastRefreshTime
       /\ lastCall'.saved \in {"ok", "failed"}
       /\ lastCall'.saved = "ok" =>
            storeItem'.present /\ getHoldings(storeItem') = holdings'
       /\ lastCall'.saved = "failed" => storeItem' = storeItem]_vars

\* A batch with a success has completed, its write was accepted and the
\* store holds a valuation.
C7_Witness ==
  /\ lastCall.settled = "success" /\ lastCall.saved = "ok"
  /\ getHoldings(storeItem) = holdings
  /\ \E k \in 1..Len(holdings) : holdings[k].lastNav # Undefined

\* ---------------------------------------------------------------------
\* The values of the fulfilled requests among rs, in order.
FulfilledValues(rs) ==
  LET F == {k \in 1..Len(rs) : rs[k].status = "fulfilled"}
  IN  [n \in 1..Cardinality(F) |->
         rs[CHOOSE k \in F : Cardinality({j \in F : j <= k}) = n].value[1]]

\* C8: the requests of a batch are all issued at once; the batch completes
\* only when each of them has settled, one by one and without a settled
\* one changing again; a failure does not end the batch; and the estimate
\* of every request that succeeded is delivered (merged into its holding,
\* returned by getBatchFundEstimate) whatever the others did.
C8_BatchIsSettleAll ==
  [][/\ lastCall'.refresh = "fetch" =>
          \A k \in 1..Len(requests') :
            requests'[k].status = "pending" /\ requests'[k].stage = "live"
     /\ (isLoading /\ ~isLoading') =>
          /\ \A k \in 1..Len(requests') : requests'[k].status # "pending"
          /\ \A k \in 1..Len(requests') :
               requests'[k].status = "fulfilled" =>
                 holdings'[k].estimateTime = <<requests'[k].value[1].time>>
          /\ getBatchFundEstimate(requests', Len(requests'))
               = FulfilledValues(requests')
     /\ (isLoading /\ \E k \in 1..Len(requests') :
                        requests'[k].status = "pending") =>
          isLoading' /\ holdings' = holdings /\ lastCall'.settled = "none"
     /\ (isLoading /\ lastCall'.refresh = "notcalled") =>
          \A k \in 1..Len(requests) :
            requests[k].status # "pending" => requests'[k] = requests[k]]_vars

\* A batch completed with its first request rejected before the second
\* one was fulfilled by the fallback.
C8_Witness ==
  /\ lastCall.settled = "success" /\ Len(requests) = 2
  /\ requests[1].status = "rejected"
  /\ requests[2].status = "fulfilled" /\ requests[2].stage = "fallback"
  /\ holdings[1].estimateTime = Undefined
  /\ holdings[2].estimateTime # Undefined

\* ---------------------------------------------------------------------
LiveMissEvents == {"LiveTimeout", "LiveOnerror", "LiveOnloadAbsent"}
LiveDataEvents == {"LiveOnloadData", "LiveOnloadMalformed"}
FallbackFailureEvents ==
  {"FallbackTimeout", "FallbackOnerror", "FallbackOnloadAbsent",
   "FallbackOnloadMalformed"}

\* Request k of the batch in flight was acted on by the task of this step.
Answered(k) ==
  /\ isLoading /\ lastCall'.refresh = "notcalled"
  /\ k \in 1..Len(requests) /\ requests'[k] # requests[k]

\* C9: getFundEstimate dispatches the settled-net-value request only after
\* the live-estimate request gave no data (timeout, load error, nothing
\* published); when the live script left data, the promise is fulfilled
\* with the estimate made of it and the fallback is never dispatched.
C9_FallbackOnlyAfterLiveMiss ==
  [][\A k \in 1..Len(requests') :
       /\ lastCall'.refresh = "fetch" => requests'[k].stage = "live"
       /\ Answered(k) =>
            /\ requests[k].status = "pending"
            /\ requests[k].stage = "live" =>
                 /\ lastCall'.event \in LiveMissEvents \cup LiveDataEvents
                 /\ lastCall'.event \in LiveMissEvents =>
                      /\ requests'[k].stage = "fallback"
                      /\ requests'[k].status = "pending"
                      /\ requests'[k].value = Undefined
                 /\ lastCall'.event \in LiveDataEvents =>
                      /\ requests'[k].stage = "live"
                      /\ requests'[k].status = "fulfilled"
                      /\ requests'[k].value # Undefined
                      /\ requests'[k].value[1].code = requests[k].code
            /\ requests[k].stage = "fallback" =>
                 /\ lastCall'.event \notin LiveMissEvents \cup LiveDataEvents
                 /\ requests'[k].stage = "fallback"]_vars

\* A batch completed with one estimate made of live data, its fallback
\* never dispatched, while the other request had gone to the fallback.
C9_Witness ==
  /\ ~isLoading /\ Len(requests) = 2
  /\ requests[1].status = "fulfilled" /\ requests[1].stage = "live"
  /\ requests[1].value[1].time = "14:30"
  /\ requests[2].stage = "fallback"

\* ---------------------------------------------------------------------
\* C10: the live-estimate path never produces an error: its timeout, load
\* error and absent or malformed payload all count as a miss and send the
\* request to the fallback; on the fallback path a timeout, a load error
\* and a missing or malformed payload each reject the request.
C10_MissAndHardError ==
  [][\A k \in 1..Len(requests') :
       Answered(k) =>
         /\ requests[k].stage = "live" => requests'[k].status # "rejected"
         /\ lastCall'.event \in LiveMissEvents \cup {"LiveOnloadMalformed"} =>
              /\ requests'[k].status = "pending"
              /\ requests'[k].stage = "fallback"
         /\ lastCall'.event \in FallbackFailureEvents =>
              requests'[k].status = "rejected"]_vars

\* C10, the fallback path alone: a settled-net-value script that assigns
\* nothing, or an empty array, rejects the request.
C10_FallbackMissingPayloadRejects ==
  [][\A k \in 1..Len(requests') :
       (Answered(k) /\ lastCall'.event \in FallbackFailureEvents) =>
         requests'[k].status = "rejected"]_vars

\* ---------------------------------------------------------------------
LateEvents == {"LateLiveOnload", "LateFallbackOnload", "LateOnerror"}

\* C11: a provider request resolves exactly once (a settled promise keeps
\* its outcome), and a script load or error that arrives after the
\* request's timeout changes neither an outcome nor the shared state: the
\* window's data globals and the holdings.
C11_LateResponseIsDiscarded ==
  [][/\ \A k \in 1..Len(requests) :
          requests[k].status # "pending" => requests'[k] = requests[k]
     /\ lastCall'.event \in LateEvents =>
          /\ requests' = requests
          /\ Data_netWorthTrend' = Data_netWorthTrend
          /\ holdings' = holdings]_vars

\* ---------------------------------------------------------------------
\* C12: the estimate delivered for an instrument is built only from the
\* provider's response to that instrument's own request: it carries the
\* instrument's code and the net value the provider publishes for it (or 0
\* when that response had no parsable number), never what another request
\* left on the shared channel.
C12_ResultIsOwnResponse ==
  \A k \in 1..Len(requests) :
    requests[k].status = "fulfilled" =>
      /\ requests[k].value[1].code = requests[k].code
      /\ requests[k].value[1].netWorth \in {ProviderNav(requests[k].code), 0}

\* ---------------------------------------------------------------------
\* C13: getFundEstimate for an instrument with an unexpired cache entry
\* is fulfilled from the cache and dispatches no provider request, and an
\* estimate obtained from the provider is in the cache afterwards.
C13_CacheIsReadThrough ==
  [][/\ lastCall'.event = "getFundEstimate" =>
          LET r      == requests'[Len(requests')]
              cached == getCache(cacheItem, <<r.code>>, nowMs).returned
          IN  cached # Undefined =>
                r.status = "fulfilled" /\ r.value = cached
     /\ \A k \in 1..Len(requests) :
          ( /\ requests[k].status = "pending"
            /\ requests'[k].status = "fulfilled" ) =>
            getCache(cacheItem', <<requests[k].code>>, nowMs').returned
              = requests'[k].value]_vars

\* ---------------------------------------------------------------------
\* The fundCache item holds an object with an entry for the key.
HasEntry(item, key) ==
  item.present /\ item.kind = "object" /\ key \in DOMAIN item.text

\* This step is a call of getCache with a key / of setCache.
GetCacheCalled == cacheCall'.op = "getCache" /\ cacheCall'.key # Undefined
SetCacheCalled == cacheCall'.op = "setCache"

\* C14: getCache(key) returns null at every time at or after the entry's
\* expireTime, although the entry is still stored, and the entry's data at
\* every time before it; the call itself deletes nothing.
C14_ExpiredEntryIsMiss ==
  [][(GetCacheCalled /\ HasEntry(cacheItem, cacheCall'.key[1])) =>
       LET entry == cacheItem.text[cacheCall'.key[1]]
       IN  /\ nowMs >= entry.expireTime => cacheCall'.returned = Undefined
           /\ nowMs < entry.expireTime => cacheCall'.returned = <<entry.data>>
           /\ cacheItem' = cacheItem]_vars

\* getCache has just returned a miss for a key whose entry is still stored,
\* at the very instant the entry expires.
C14_Witness ==
  /\ cacheCall.op = "getCache" /\ cacheCall.key = <<CodeA>>
  /\ cacheCall.returned = Undefined
  /\ HasEntry(cacheItem, CodeA)
  /\ cacheItem.text[CodeA].expireTime = nowMs

\* The entry that a setCache call builds from its arguments, the clock
\* reading now at the end of the call.
EntryOfCall(call, now) ==
  LET minutes == IF call.expireMinutes = Undefined
                   THEN 5 ELSE call.expireMinutes[1]
  IN  [data |-> call.data[1], expireTime |-> now + minutes * 60000]

\* C15 as stated: after any setCache call the key's entry holds the data
\* and expiry of that call, and the entries of the other keys are as
\* before.
C15_SetCacheOverwrites ==
  [][SetCacheCalled =>
       LET key == cacheCall'.key[1]
       IN  /\ HasEntry(cacheItem', key)
           /\ cacheItem'.text[key].data = EntryOfCall(cacheCall', nowMs').data
           /\ cacheItem'.text[key].expireTime
                = EntryOfCall(cacheCall', nowMs').expireTime]_vars

\* C15 amended: after a setCache call that returned true the key's entry
\* holds the data and expiry of that call, whatever it held before, and
\* the entries of the other keys are as before; a setCache call that
\* returned false leaves the cache as it was; and getCache(key) before
\* expiry returns the data of the entry.
C15_SuccessfulSetCacheOverwrites ==
  [][/\ (SetCacheCalled /\ cacheCall'.returned) =>
          LET key == cacheCall'.key[1]
              old == IF cacheItem.present THEN cacheItem.text ELSE <<>>
          IN  /\ HasEntry(cacheItem', key)
              /\ cacheItem'.text[key].data
                   = EntryOfCall(cacheCall', nowMs').data
              /\ cacheItem'.text[key].expireTime
                   = EntryOfCall(cacheCall', nowMs').expireTime
              /\ DOMAIN cacheItem'.text = DOMAIN old \cup {key}
              /\ \A other \in DOMAIN old \ {key} :
                   cacheItem'.text[other] = old[other]
     /\ (SetCacheCalled /\ ~cacheCall'.returned) =>
          cacheItem' = cacheItem
     /\ (GetCacheCalled /\ HasEntry(cacheItem, cacheCall'.key[1])) =>
          LET entry == cacheItem.text[cacheCall'.key[1]]
          IN  nowMs < entry.expireTime =>
                cacheCall'.returned = <<entry.data>>]_vars

\* getCache has returned, for the key the cache held at first, the data of
\* a later setCache and not the data first stored.
C15_Witness ==
  /\ cacheCall.op = "getCache" /\ cacheCall.key = <<CodeA>>
  /\ cacheCall.returned # Undefined
  /\ cacheCall.returned # <<CachedEstimate>>
  /\ HasEntry(cacheItem, CodeA)
  /\ cacheItem.text[CodeA].updateTime >= StorageOpenTime

\* C16: the entry written by setCache(key, data, expireMinutes) has
\* updateTime = the time of the write and
\* expireTime = updateTime + expireMinutes * 60000 (expireMinutes 5 when
\* omitted).
C16_ExpiryIsWriteTimePlusTtl ==
  [][(SetCacheCalled /\ cacheCall'.returned) =>
       LET entry == cacheItem'.text[cacheCall'.key[1]]
       IN  /\ entry.updateTime = cacheCall'.at
           /\ entry.expireTime
                = EntryOfCall(cacheCall', entry.updateTime).expireTime]_vars

\* C17: getCache, setCache and clearExpiredCache never raise; getCache(key)
\* returns null when the cache item is absent, was removed by clearAll or
\* cannot be read; setCache returns true or false, false whenever the
\* entry was not written, and leaves holdings, transactions and settings
\* (and, on failure, the cache) as they were.
C17_CacheIsBestEffort ==
  [][/\ cacheCall'.op \in {"getCache", "setCache", "clearExpiredCache"} =>
          ~cacheCall'.raised
     /\ cacheCall'.op \in {"getCache", "clearExpiredCache"} =>
          UNCHANGED <<storeItem, transactionsItem, settingsItem>>
     /\ (GetCacheCalled /\ (~cacheItem.present \/ cacheItem.kind # "object")) =>
          cacheCall'.returned = Undefined
     /\ (GetCacheCalled /\ cacheCall.op = "clearAll") =>
          cacheCall'.returned = Undefined
     /\ SetCacheCalled =>
          /\ cacheCall'.returned \in BOOLEAN
          /\ UNCHANGED <<storeItem, transactionsItem, settingsItem>>
          /\ ~cacheCall'.returned => cacheItem' = cacheItem
          /\ ~HasEntry(cacheItem', cacheCall'.key[1]) =>
               ~cacheCall'.returned]_vars

\* setCache has failed on a cache item that cannot be read, returning
\* false and leaving the other items in place.
C17_Witness ==
  /\ cacheCall.op = "setCache" /\ ~cacheCall.returned
  /\ cacheItem = CorruptText
  /\ storeItem.present /\ transactionsItem.present /\ settingsItem.present

\* ---------------------------------------------------------------------
\* C18: a batch that completes without any success shows the failure
\* notice, once; a batch that completes with a success shows the success
\* notice and no other.
C18_NoticeMatchesOutcome ==
  [][BatchCompleted =>
       /\ lastCall'.settled = "nosuccess" => lastCall'.toast = "failed"
       /\ lastCall'.settled = "success" => lastCall'.toast = "updated"]_vars

\* C19: when Storage.saveHoldings fails at the end of a batch, the
\* estimates merged into the holdings in memory are kept, lastRefreshTime
\* is advanced, the scheduler is Idle again, and no failure notice is
\* raised on account of the write: the success notice and the new summary
\* are shown, unless rendering itself raised.
C19_WriteFailureIsNonFatal ==
  [][lastCall'.saved = "failed" =>
       /\ \A k \in 1..Len(requests') :
            requests'[k].status = "fulfilled" =>
              /\ holdings'[k].estimateTime = <<requests'[k].value[1].time>>
              /\ holdings'[k].dayChange = <<requests'[k].value[1].dayGrowth>>
              /\ holdings'[k].lastNav # Undefined
       /\ storeItem' = storeItem
       /\ lastRefreshTime' = batchNow
       /\ ~isLoading'
       /\ lastCall'.toast = "failed" => renderHoldingsThrows(holdings')
       /\ ~renderHoldingsThrows(holdings') =>
            /\ lastCall'.toast = "updated"
            /\ summaryCard' = updateSummaryCard(calculateSummary(holdings'))]_vars

\* A batch has completed whose write was refused: the store still holds
\* the holdings without valuation, memory holds the new one, the success
\* notice was shown and the scheduler is Idle.
C19_Witness ==
  /\ lastCall.saved = "failed" /\ lastCall.toast = "updated" /\ ~isLoading
  /\ getHoldings(storeItem) # holdings
  /\ \E k \in 1..Len(holdings) :
       /\ holdings[k].estimateTime # Undefined
       /\ getHoldings(storeItem)[k].estimateTime = Undefined

\* ---------------------------------------------------------------------
\* C20: the snapshot returned by calculateProfit has
\* costAmount = shares * costPrice and currentAmount = shares * valuation,
\* each rounded to 0.01, and profit = currentAmount - costAmount on the
\* returned values.
C20_ProfitIsDifferenceOfAmounts ==
  calcCall.op = "calculateProfit" =>
    LET h == calcCall.holding
        r == calcCall.returned
    IN  /\ r.costAmount = (2 * h.shares * h.costPrice + 10000) \div 20000
        /\ r.currentAmount
             = (2 * h.shares * calcCall.currentNav + 10000) \div 20000
        /\ r.profit = r.currentAmount - r.costAmount

\* The spec's example at one hundredth of its size: 1.00 share at cost
\* 10.00 valued at 12.50 gives 10.00, 12.50, 2.50 and 25.00 %.
C20_ExampleHolds ==
  ( /\ calcCall.op = "calculateProfit"
    /\ calcCall.holding.shares = 100
    /\ calcCall.holding.costPrice = 100000
    /\ calcCall.currentNav = 125000 ) =>
    calcCall.returned = [costAmount |-> 1000, currentAmount |-> 1250,
                         profit |-> 250, profitRate |-> 2500]

\* ---------------------------------------------------------------------
\* C21: a position without cost has rate 0: calculateProfit returns
\* profitRate 0 for every holding whose shares * costPrice is 0, whatever
\* the valuation; calculateSummary returns totalProfitRate 0 when its
\* totalCost is 0; calculateRate returns 0 for cost 0.
C21_ZeroCostHasZeroRate ==
  /\ ( /\ calcCall.op = "calculateProfit"
       /\ calcCall.holding.shares * calcCall.holding.costPrice = 0 )
       => calcCall.returned.profitRate = 0
  /\ ( /\ calcCall.op = "calculateSummary"
       /\ calcCall.returned.totalCost = 0 )
       => calcCall.returned.totalProfitRate = 0
  /\ ( /\ calcCall.op = "calculateRate"
       /\ calcCall.cost = 0 )
       => calcCall.returned = 0

\* A holding without cost was valued above zero, or a summary without cost
\* has a current amount.
C21_Witness ==
  \/ /\ calcCall.op = "calculateProfit"
     /\ calcCall.holding.shares > 0
     /\ calcCall.holding.costPrice = 0
     /\ calcCall.returned.currentAmount > 0
  \/ /\ calcCall.op = "calculateSummary"
     /\ calcCall.returned.totalCost = 0
     /\ calcCall.returned.totalCurrent > 0

\* ---------------------------------------------------------------------
\* The last Calculator call applied a transaction of the given type.
Transacted(type) ==
  /\ calcCall.op = "calculateAfterTransaction"
  /\ calcCall.transaction.type = type

\* C22: a buy returns shares = old shares + transaction shares rounded to
\* 2 places, and costPrice = (oldShares * oldCostPrice + amount) /
\* (oldShares + transactionShares) rounded to 4 places, i.e. within half of
\* 0.0001 of the quotient.
C22_BuyIsWeightedAverage ==
  Transacted("buy") =>
    LET h         == calcCall.holding
        t         == calcCall.transaction
        r         == calcCall.returned
        totalCost == h.shares * h.costPrice + t.amount * 10000
        newShares == h.shares * 10 + t.shares
        whole     == totalCost \div newShares
        left      == totalCost % newShares
        excess    == (r.costPrice - whole * 10) * newShares - left * 10
    IN  /\ 2 * (r.shares * 10 - newShares) \in (-9)..10
        /\ 2 * excess <= newShares
        /\ -2 * excess < newShares

\* The spec's example at one hundredth of its size: 1.00 share at 10.00 plus
\* 0.50 share bought for 6.00 gives 1.50 shares at 10.6667.
C22_Witness ==
  /\ Transacted("buy")
  /\ calcCall.holding = [shares |-> 100, costPrice |-> 100000]
  /\ calcCall.transaction.shares = 500
  /\ calcCall.transaction.amount = 600
  /\ calcCall.returned = [shares |-> 150, costPrice |-> 106667]

\* ---------------------------------------------------------------------
\* C23: a sell returns shares = max(0, oldShares - transactionShares), to
\* 2 places, never below 0 however large the sale, and the cost price of
\* the holding.
C23_SellClampsAtZero ==
  Transacted("sell") =>
    LET h    == calcCall.holding
        t    == calcCall.transaction
        r    == calcCall.returned
        left == h.shares * 10 - t.shares
    IN  /\ r.shares >= 0
        /\ left <= 0 => r.shares = 0
        /\ left > 0 => 2 * (r.shares * 10 - left) \in (-9)..10
        /\ r.costPrice = h.costPrice

\* More shares were sold than the holding had.
C23_Witness ==
  /\ Transacted("sell")
  /\ calcCall.holding.shares > 0
  /\ calcCall.transaction.shares > calcCall.holding.shares * 10
  /\ calcCall.returned.shares = 0

\* ---------------------------------------------------------------------
\* C24: from a holding with shares >= 0 and costPrice > 0, after any series
\* of buys and sells with positive shares and positive amount the holding
\* has shares >= 0 and costPrice > 0.
C24_PositionStaysValid ==
  calcCall.op = "calculateAfterTransaction" =>
    /\ calcCall.returned.shares >= 0
    /\ calcCall.returned.costPrice > 0

\* ---------------------------------------------------------------------
\* The list without its k-th holding.
CalcWithout(list, k) ==
  SubSeq(list, 1, k - 1) \o SubSeq(list, k + 1, Len(list))

\* The 2-place cost amount of holding h.
CostAmountOf(h) == (2 * h.shares * h.costPrice + 10000) \div 20000

\* C25: a holding that was never refreshed (no lastNav) is valued at its
\* cost price: calculateSummary counts it with currentAmount = costAmount,
\* so it adds the same to totalCurrent as to totalCost and nothing to the
\* profit, and calculateDistribution lists it at its cost amount.
C25_UnrefreshedHoldingIsValuedAtCost ==
  /\ calcCall.op = "calculateSummary" =>
       /\ \A k \in 1..Len(calcCall.holdings) :
            calcCall.holdings[k].lastNav = Undefined =>
              LET h    == calcCall.holdings[k]
                  rest == calculateSummary(CalcWithout(calcCall.holdings, k))
                  all  == calcCall.returned
              IN  /\ all.totalCost - rest.totalCost = CostAmountOf(h)
                  /\ all.totalCurrent - rest.totalCurrent = CostAmountOf(h)
                  /\ all.totalProfit = rest.totalProfit
       /\ (\A k \in 1..Len(calcCall.holdings) :
             calcCall.holdings[k].lastNav = Undefined) =>
            /\ calcCall.returned.totalProfit = 0
            /\ calcCall.returned.totalProfitRate = 0
  /\ calcCall.op = "calculateDistribution" =>
       /\ Len(calcCall.returned) = Len(calcCall.holdings)
       /\ \A k \in 1..Len(calcCall.holdings) :
            calcCall.holdings[k].lastNav = Undefined =>
              \E j \in 1..Len(calcCall.returned) :
                /\ calcCall.returned[j].code = calcCall.holdings[k].code
                /\ calcCall.returned[j].value
                     = CostAmountOf(calcCall.holdings[k])

\* A summary of a holding that was never refreshed, with shares and a cost,
\* next to one that was.
C25_Witness ==
  /\ calcCall.op = "calculateSummary"
  /\ Len(calcCall.holdings) = 2
  /\ calcCall.holdings[1].lastNav = Undefined
  /\ calcCall.holdings[1].shares > 0
  /\ calcCall.holdings[1].costPrice > 0
  /\ calcCall.holdings[2].lastNav # Undefined
  /\ calcCall.returned.totalProfit > 0

\* ---------------------------------------------------------------------
\* The 2-place day profit of holding h, currentAmount * dayChange / 100,
\* for a holding that carries a day change.
DayProfitOf(h) ==
  LET valuation == IF h.lastNav \in {Undefined, <<0>>}
                     THEN h.costPrice ELSE h.lastNav[1]
  IN  (2 * h.shares * valuation * h.dayChange[1] + 100000000)
        \div 200000000

\* The day profits of the holdings among list[1..k] that carry a day change.
RECURSIVE DayProfitSum(_, _)
DayProfitSum(list, k) ==
  IF k = 0 THEN 0
  ELSE DayProfitSum(list, k - 1)
         + (IF list[k].dayChange = Undefined THEN 0
            ELSE DayProfitOf(list[k]))

\* C26: calculateSummary sets hasDayProfit exactly when some holding
\* carries a day change, whether or not the day profit is zero; holdings
\* without one add nothing to totalDayProfit and each holding with one adds
\* currentAmount * dayChange / 100.
C26_HasDayProfitIffSomeDayChange ==
  calcCall.op = "calculateSummary" =>
    /\ calcCall.returned.hasDayProfit
         = (\E k \in 1..Len(calcCall.holdings) :
              calcCall.holdings[k].dayChange # Undefined)
    /\ calcCall.returned.totalDayProfit
         = DayProfitSum(calcCall.holdings, Len(calcCall.holdings))

\* Mixed availability with a zero day profit: one holding without a day
\* change, one with a day change of 0.
C26_Witness ==
  /\ calcCall.op = "calculateSummary"
  /\ Len(calcCall.holdings) = 2
  /\ calcCall.holdings[1].dayChange = Undefined
  /\ calcCall.holdings[2].dayChange = <<0>>
  /\ calcCall.holdings[2].shares > 0
  /\ calcCall.returned.hasDayProfit
  /\ calcCall.returned.totalDayProfit = 0

\* ---------------------------------------------------------------------
\* C27: calculateAnnualizedRate(totalRate, 0) returns the number 0 for
\* every totalRate, never NaN or an infinite value.
C27_NoDaysGivesZero ==
  ( /\ calcCall.op = "calculateAnnualizedRate"
    /\ calcCall.days = 0 ) =>
    /\ calcCall.returned.finite
    /\ calcCall.returned.value = 0

\* The spec's example: a total rate of 10 % over 0 days.
C27_Witness ==
  /\ calcCall.op = "calculateAnnualizedRate"
  /\ calcCall.totalRate = 1000
  /\ calcCall.days = 0
  /\ calcCall.returned = Finite(0)

\* ---------------------------------------------------------------------
\* C28: the valuation fields of the holdings in memory and lastRefreshTime
\* change only in the completion step of the batch in flight: a step that
\* changes either starts in Refreshing and is the task in which the last
\* request of the batch settled; no step taken in Idle and no gated, busy
\* or skipped trigger changes them.
C28_OnlyCompletionWritesValuations ==
  [][ ( \/ holdings # <<>> /\ holdings' # holdings
        \/ lastRefreshTime' # lastRefreshTime )
      => /\ isLoading
         /\ BatchCompleted
         /\ ~RefreshCalled
         /\ \A k \in 1..Len(requests') : requests'[k].status # "pending"
         /\ ~isLoading' ]_vars

\* A completion wrote an estimate and the refresh time, and a trigger
\* after it was gated.
C28_Witness ==
  /\ lastCall.refresh = "gated"
  /\ lastRefreshTime > 0
  /\ \E k \in 1..Len(holdings) : holdings[k].lastNav # Undefined

\* ---------------------------------------------------------------------
\* The instants from now on at which a later getCache may run.
ReadTimes ==
  { nowMs + m * MsPerMinute + s :
      m \in 0..(MaxCacheMinutes + DefaultExpireMinutes), s \in 0..MaxSkewMs }

\* The keys with an entry in the item.
KeysOf(item) ==
  IF item.present /\ item.kind = "object" THEN DOMAIN item.text ELSE {}

\* C29: the sweep is not needed for correctness: clearExpiredCache removes
\* only entries that getCache already reports as a miss, keeps every
\* unexpired entry as it is, and getCache(key) returns the same for every
\* key and every time from then on as it would have without the sweep.
C29_SweepIsInvisibleToReads ==
  [][ cacheCall'.op = "clearExpiredCache" =>
        /\ KeysOf(cacheItem') \subseteq KeysOf(cacheItem)
        /\ \A key \in KeysOf(cacheItem) :
             IF key \in KeysOf(cacheItem')
               THEN cacheItem'.text[key] = cacheItem.text[key]
               ELSE getCache(cacheItem, <<key>>, nowMs).returned = Undefined
        /\ \A key \in KeysOf(cacheItem) :
             EntryIsFresh(cacheItem.text[key], nowMs)
               => key \in KeysOf(cacheItem')
        /\ \A key \in CacheKeys, t \in ReadTimes :
             getCache(cacheItem', <<key>>, t) = getCache(cacheItem, <<key>>, t)
    ]_vars

\* A sweep has removed the only entry of the cache, which had expired.
C29_Witness ==
  /\ cacheCall.op = "clearExpiredCache"
  /\ cacheItem = CacheText(EmptyCache)

\* ---------------------------------------------------------------------
\* C30: the correlator does not leak: in every reachable state the
\* callbacks registered on window are exactly those of the requests that
\* have not settled, and so are the pending timers; a request settled by
\* response, by timeout or by transport error has neither.
C30_RegisteredIffUnsettled ==
  \A k \in 1..Len(jsonpCalls) :
    /\ jsonpCalls[k].callback = (jsonpCalls[k].status = "pending")
    /\ jsonpCalls[k].timer = (jsonpCalls[k].status = "pending")

\* One request was settled by its timer while its script was still
\* loading, and another is still waiting.
C30_Witness ==
  \E j, k \in 1..Len(jsonpCalls) :
    /\ jsonpCalls[j].status = "rejected" /\ jsonpCalls[j].loading
    /\ ~jsonpCalls[j].callback
    /\ jsonpCalls[k].status = "pending" /\ jsonpCalls[k].callback

\* ---------------------------------------------------------------------
\* C31: a provider value of 0 never overwrites a valuation: when a
\* successful lookup reports net value 0 the holding keeps its lastNav, or
\* takes its costPrice if it had none; so every holding touched by a
\* successful lookup has lastNav > 0 (the cost prices are positive).
C31_ZeroNeverOverwritesValuation ==
  [][BatchCompleted =>
       \A k \in 1..Len(holdings') :
         /\ holdings'[k].costPrice > 0
         /\ holdings'[k].dayChange # Undefined =>
              /\ holdings'[k].lastNav # Undefined
              /\ holdings'[k].lastNav[1] > 0
         /\ ( /\ requests'[k].status = "fulfilled"
              /\ requests'[k].value[1].netWorth = 0 ) =>
              holdings'[k].lastNav =
                IF holdings[k].lastNav = Undefined
                  THEN <<holdings[k].costPrice>> ELSE holdings[k].lastNav
    ]_vars

\* A lookup succeeded with net value 0 for a holding that a lookup before
\* had given the provider's net value, and the holding still has it.
C31_Witness ==
  /\ lastCall.settled = "success"
  /\ \E k \in 1..Len(holdings) :
       /\ requests[k].status = "fulfilled"
       /\ requests[k].value[1].netWorth = 0
       /\ holdings[k].lastNav = <<ProviderNav(holdings[k].code)>>

\* ---------------------------------------------------------------------
\* C32: lastRefreshTime never decreases and never exceeds the current
\* time; whenever it changes, it becomes the start time of the batch that
\* has just completed with at least one success.
C32_RefreshTimeIsMonotone ==
  [][/\ lastRefreshTime' >= lastRefreshTime
     /\ lastRefreshTime' <= clock'
     /\ lastRefreshTime' # lastRefreshTime =>
          /\ lastCall'.settled = "success"
          /\ lastRefreshTime' = batchNow
          /\ batchNow <= clock]_vars

\* A batch started after the page was opened has succeeded while time
\* passed: the refresh time is its start, earlier than now.
C32_Witness ==
  /\ lastCall.settled = "success"
  /\ lastRefreshTime > PageOpenTime
  /\ lastRefreshTime < clock

\* ---------------------------------------------------------------------
\* The instrument codes and the ids of the holdings in the store.
StoredCodes(item) ==
  {getHoldings(item)[k].code : k \in 1..Len(getHoldings(item))}
StoredIds(item) ==
  {getHoldings(item)[k].id : k \in 1..Len(getHoldings(item))}

\* C33: a change made to the Holdings Store by addHolding or deleteHolding
\* while a refresh is in flight is not undone by that refresh's persist
\* step: when the batch completes right after the change, the store still
\* holds every holding it held after an addition, and none that it lacked
\* after a deletion.
C33_RefreshKeepsStoreChanges ==
  [][(BatchCompleted /\ isLoading) =>
       /\ lastCall.event = "addHolding" =>
            StoredCodes(storeItem) \subseteq StoredCodes(storeItem')
       /\ lastCall.event = "deleteHolding" =>
            StoredIds(storeItem') \subseteq StoredIds(storeItem)]_vars

\* ---------------------------------------------------------------------
\* The stored holdings of each side of a step.
HoldingsBefore == getHoldings(storeItem)
HoldingsAfter == getHoldings(storeItem')

\* C34: from a store without holdings, after any calls of addHolding and
\* deleteHolding no two stored holdings have the same instrument code; an
\* addHolding with a code already stored raises and leaves the stored
\* holdings as they were.
C34_StoredCodesAreUnique ==
  [][/\ cacheCall'.onlyAddDelete =>
          \A j, k \in 1..Len(HoldingsAfter) :
            HoldingsAfter[j].code = HoldingsAfter[k].code => j = k
     /\ ( /\ cacheCall'.op = "addHolding"
          /\ cacheCall'.data.code \in StoredCodes(storeItem) ) =>
          /\ cacheCall'.raised
          /\ storeItem' = storeItem]_vars

\* The third call was an addHolding of the one stored code and raised.
C34_Witness ==
  /\ cacheCall.op = "addHolding"
  /\ cacheCall.onlyAddDelete
  /\ cacheCall.raised
  /\ cacheCall.n = 3
  /\ StoredCodes(storeItem) = {cacheCall.data.code}

\* ---------------------------------------------------------------------
\* The places of the stored holdings of the id asked for.
PlacesOf(id) == {k \in 1..Len(HoldingsBefore) : HoldingsBefore[k].id = id}

\* C35: updateHolding and deleteHolding with an id of no stored holding
\* report it (updateHolding throws, deleteHolding returns false) and leave
\* the stored holdings as they were; with the id of a stored holding,
\* every other holding is left as it was: updateHolding keeps the list's
\* length and changes that place only, to the holding with the data's
\* fields when the write is accepted; deleteHolding takes that one holding
\* out when the write is accepted.
C35_OnlyTheNamedHoldingChanges ==
  [][/\ cacheCall'.op = "updateHolding" =>
          IF PlacesOf(cacheCall'.id) = {}
            THEN cacheCall'.raised /\ storeItem' = storeItem
            ELSE /\ ~cacheCall'.raised
                 /\ Len(HoldingsAfter) = Len(HoldingsBefore)
                 /\ \A k \in 1..Len(HoldingsBefore) :
                      IF k \in PlacesOf(cacheCall'.id) /\ cacheCall'.ok
                        THEN /\ \A f \in DOMAIN cacheCall'.data :
                                  HoldingsAfter[k][f] = cacheCall'.data[f]
                             /\ \A f \in DOMAIN HoldingsBefore[k]
                                         \ DOMAIN cacheCall'.data :
                                  HoldingsAfter[k][f] = HoldingsBefore[k][f]
                        ELSE HoldingsAfter[k] = HoldingsBefore[k]
     /\ cacheCall'.op = "deleteHolding" =>
          IF PlacesOf(cacheCall'.id) = {}
            THEN cacheCall'.returned = FALSE /\ storeItem' = storeItem
            ELSE /\ cacheCall'.returned = TRUE
                 /\ Cardinality(PlacesOf(cacheCall'.id)) = 1
                 /\ LET p == CHOOSE k \in PlacesOf(cacheCall'.id) : TRUE
                    IN  IF cacheCall'.ok
                          THEN /\ Len(HoldingsAfter) = Len(HoldingsBefore) - 1
                               /\ \A k \in 1..Len(HoldingsAfter) :
                                    HoldingsAfter[k] =
                                      HoldingsBefore[IF k < p THEN k ELSE k + 1]
                          ELSE storeItem' = storeItem]_vars

\* One of two stored holdings was deleted and the other one is left.
C35_Witness ==
  /\ cacheCall.op = "deleteHolding"
  /\ cacheCall.returned = TRUE
  /\ cacheCall.ok
  /\ Len(getHoldings(storeItem)) = 1
  /\ getHoldings(storeItem)[1].id # cacheCall.id

\* ---------------------------------------------------------------------
\* importData was given an export of the application in this step.
ImportedExport ==
  /\ cacheCall'.op = "importData"
  /\ cacheCall'.data # Undefined
  /\ cacheCall'.data[1].version = "1.0"

\* C36: importData given an export of the application, the one of the
\* store as it is or one taken earlier, returns true when localStorage
\* accepts its writes, and whenever it returns true the holdings,
\* transactions and settings are as the export has them.
C36_ImportRestoresExport ==
  [][ImportedExport =>
       /\ cacheCall'.ok => cacheCall'.returned = TRUE
       /\ cacheCall'.returned = TRUE =>
            /\ HoldingsAfter = cacheCall'.data[1].holdings
            /\ getTransactions(transactionsItem') =
                 cacheCall'.data[1].transactions
            /\ getSettings(settingsItem') = cacheCall'.data[1].settings]_vars

====
